---- MODULE Spec2Model ----
(***************************************************************************)
(* Durable Object storage and alarm bindings of betterworker              *)
(* (lib/worker/src/durable.rs), together with the host storage they call.  *)
(*                                                                         *)
(* A Storage method serialises its arguments with serde_wasm_bindgen,      *)
(* issues one call on the host's DurableObjectStorage, awaits the promise  *)
(* and converts the settled value back.  The conversions and checks are    *)
(* modelled from the Rust source; the host object they call is modelled    *)
(* from its documented contract.                                           *)
(***************************************************************************)
EXTENDS Integers, Sequences, FiniteSets, TLC

VARIABLES
    store,   \* host storage of the actor: a function from its live keys to JS values
    last,    \* the Storage call that settled last, with its result
    pm,      \* the put_multiple call in flight, if any
    clock,   \* Date.now(), in milliseconds
    alarm,   \* the host's alarm slot of the actor: <<>> or <<the pending alarm>>
    alast,   \* the alarm call of Storage that settled last, with its result
    run,     \* the alarm handler invocation of the actor
    issued,  \* the number of alarms set so far; the n-th alarm set is alarm n
    expect,  \* the alarm set last and not deleted since: <<>> or <<[time, id]>>
    started, \* the alarms whose handler has been started
    done,    \* the alarms whose handler has succeeded
    deleted, \* the alarms removed by delete_alarm before their handler had started
    reqs,    \* the requests the worker routes to the AlarmObject, each with its position
    held,    \* the ScheduledTime constructed and not yet given to set_alarm: <<>> or <<it>>
    blk,     \* the operation given to block_concurrency_while, and how far it has run
    ev,      \* the other events of the actor, each with its position
    inv,     \* the invocations (fetch or alarm) of one actor instance, each with its position
    objs,    \* the live instances of each object of the sandbox
    disk,    \* the host storage of each object of the sandbox
    states,  \* the DurableObjectState handles created so far: handle h is of object states[h]
    loads,   \* per object, how many times the host has loaded it
    news,    \* per object, how many times the constructor has run
    atEvict, \* per object, its storage when it was evicted last
    fetches, \* the requests sent to the stubs of the objects, each with its position
    ids,     \* per namespace, the ids it has produced
    nslog,   \* the calls made on the namespaces so far, each with its result
    own,     \* the ObjectIds obtained from State::id
    stub,    \* the get_stub call made last, with its result
    sends,   \* the calls of Stub::fetch_with_str / fetch_with_request, each with its result
    bare,    \* an object without an alarm handler: its storage and the alarms fired on it
    glue,    \* the runs of the worker's fetch event handler, each with what came of it
    envcalls, \* the calls of the Env accessors, each with its result
    sock,    \* a Socket being read: its read state, its stream and what was delivered
    race     \* a Counter whose fetches interleave at their awaits

storageVars == <<store, last, pm>>

alarmVars == <<clock, alarm, alast, run, issued, expect, started, done, deleted>>

\* What the storage operations leave alone, and what the alarm operations do.
alarmObjectVars == <<reqs>>

scheduleVars == <<held>>

\* The variables of the parts that follow storage, alarms and the AlarmObject.
blockVars == <<blk, ev>>

invokeVars == <<inv>>

instanceVars == <<objs, disk, states, loads, news, atEvict, fetches>>

namespaceVars == <<ids, nslog>>

\* The variables of the parts before the stubs.
earlyVars ==
    <<storageVars, alarmVars, alarmObjectVars, scheduleVars, blockVars, invokeVars,
      instanceVars, namespaceVars>>

stubVars == <<own, stub>>

lateVars == <<stubVars, sends, bare, glue, envcalls, sock, race>>

moreVars == <<instanceVars, namespaceVars, lateVars>>

restVars == <<scheduleVars, blockVars, invokeVars, moreVars>>

notStorageVars == <<alarmVars, alarmObjectVars, restVars>>

notAlarmVars == <<storageVars, alarmObjectVars, restVars>>

vars == <<storageVars, alarmVars, alarmObjectVars, restVars>>

(***************************************************************************)
(* Keys.  A key is a string, modelled as the sequence of its bytes so that *)
(* lexicographic order and prefixes are computed, not assumed.             *)
(* Bytes: 0 = '0', 1 = '1', 2 = 'a', 3 = 'b'.                              *)
(***************************************************************************)
Key0 == <<0>>
Key1 == <<1>>
KeyA == <<2>>
KeyAB == <<2, 3>>

Keys == {Key0, Key1, KeyA, KeyAB}

RECURSIVE KeyLess(_, _)
KeyLess(a, b) ==
    IF a = <<>> THEN b # <<>>
    ELSE IF b = <<>> THEN FALSE
    ELSE IF a[1] # b[1] THEN a[1] < b[1]
    ELSE KeyLess(Tail(a), Tail(b))

StartsWith(k, p) ==
    /\ Len(p) <= Len(k)
    /\ SubSeq(k, 1, Len(p)) = p

\* The decimal property name of an array index, as a key ("0", "1").
IndexKey(i) == <<i - 1>>

(***************************************************************************)
(* Partial functions.                                                      *)
(***************************************************************************)
EmptyFn == [x \in {} |-> 0]

Upd(f, k, v) == [x \in (DOMAIN f) \cup {k} |-> IF x = k THEN v ELSE f[x]]

Restrict(f, D) == [x \in (DOMAIN f) \cap D |-> f[x]]

Merge(f, g) == [x \in (DOMAIN f) \cup (DOMAIN g) |-> IF x \in DOMAIN g THEN g[x] ELSE f[x]]

Range(s) == {s[i] : i \in DOMAIN s}

(***************************************************************************)
(* Rust values handed to and returned by Storage, by shape.  Every value   *)
(* is a record of the same fields; a shape uses the fields it needs.       *)
(*   n      the number of an i32, usize or bool (1 is true)                *)
(*   elems  the elements of a sequence; of an Option: <<>> is None         *)
(*   fields the entries of a string-keyed map or the fields of a struct    *)
(*   entries the (key, JS value) pairs of a js_sys::Map, in its order      *)
(***************************************************************************)
RVal(ty, n, elems, fields, entries) ==
    [ty |-> ty, n |-> n, elems |-> elems, fields |-> fields, entries |-> entries]

RUnit == RVal("unit", 0, <<>>, EmptyFn, <<>>)
RI32(n) == RVal("i32", n, <<>>, EmptyFn, <<>>)
RUsize(n) == RVal("usize", n, <<>>, EmptyFn, <<>>)
RBool(b) == RVal("bool", IF b THEN 1 ELSE 0, <<>>, EmptyFn, <<>>)
RNone == RVal("option", 0, <<>>, EmptyFn, <<>>)
RSome(n) == RVal("option", 0, <<n>>, EmptyFn, <<>>)
RSeq(s) == RVal("seq", 0, s, EmptyFn, <<>>)          \* Vec<i32>, [i32; n]
RMap(m) == RVal("map", 0, <<>>, m, <<>>)             \* HashMap<String, i32>
RStruct(f) == RVal("struct", 0, <<>>, f, <<>>)       \* #[derive(Serialize)] struct of i32 fields
RJsMap(e) == RVal("jsmap", 0, <<>>, EmptyFn, e)      \* js_sys::Map

(***************************************************************************)
(* JavaScript values, in the same layout.                                  *)
(***************************************************************************)
JsVal(t, n, elems, fields, entries) ==
    [t |-> t, n |-> n, elems |-> elems, fields |-> fields, entries |-> entries]

JsUndefined == JsVal("undefined", 0, <<>>, EmptyFn, <<>>)
JsNull == JsVal("null", 0, <<>>, EmptyFn, <<>>)
JsNumber(n) == JsVal("number", n, <<>>, EmptyFn, <<>>)
JsBool(b) == JsVal("boolean", IF b THEN 1 ELSE 0, <<>>, EmptyFn, <<>>)
JsArray(s) == JsVal("array", 0, s, EmptyFn, <<>>)    \* an Array of numbers
JsMap(m) == JsVal("map", 0, <<>>, m, <<>>)           \* a Map of string keys to numbers
JsObject(f) == JsVal("object", 0, <<>>, f, <<>>)     \* a plain Object of number properties
JsEntries(e) == JsVal("map", 0, <<>>, EmptyFn, e)    \* a Map the host returns: (key, value) in order

\* JsValue::is_undefined
is_undefined(js) == js.t = "undefined"

\* JsValue::is_object: typeof val === 'object' && val !== null
is_object(js) == js.t \in {"array", "map", "object"}

\* serde_wasm_bindgen::to_value with the default Serializer: None and unit
\* become undefined, Some(x) becomes x, a sequence an Array, a map a JS Map,
\* a struct a plain Object.
to_value(r) ==
    CASE r.ty = "i32" -> JsNumber(r.n)
      [] r.ty = "usize" -> JsNumber(r.n)
      [] r.ty = "bool" -> JsBool(r.n = 1)
      [] r.ty = "unit" -> JsUndefined
      [] r.ty = "option" -> IF r.elems = <<>> THEN JsUndefined ELSE JsNumber(r.elems[1])
      [] r.ty = "seq" -> JsArray(r.elems)
      [] r.ty = "map" -> JsMap(r.fields)
      [] r.ty = "struct" -> JsObject(r.fields)

(***************************************************************************)
(* Results and errors (WorkerError).                                       *)
(***************************************************************************)
NoSuchValue == "No such value in storage."

WorkerError(kind, msg) == [kind |-> kind, msg |-> msg]

NoError == WorkerError("none", "")
JsError(msg) == WorkerError("JsError", msg)
AwaitPromise(msg) == WorkerError("AwaitPromise", msg)
MustPassInStructType == WorkerError("MustPassInStructType", "Must pass in a struct type")
JsCast == WorkerError("JsCast", "Failed to cast a JsValue")

Ok(v) == [ok |-> TRUE, v |-> v, err |-> NoError]
Err(e) == [ok |-> FALSE, v |-> RUnit, err |-> e]

\* WorkerError::from_js_err / from_promise_err keep the message of the JS error.
from_js_err(msg) == JsError(msg)
from_promise_err(msg) == AwaitPromise(msg)
from_cast_err == JsCast

\* serde_wasm_bindgen::from_value::<T>: the Rust value of type T a JS value
\* deserialises to, or the deserialisation error.
InvalidType == "invalid type"

SerdeWasmBindgenError(msg) == WorkerError("SerdeWasmBindgenError", msg)

from_value(T, js) ==
    CASE T = "i32" ->
            IF js.t = "number" THEN Ok(RI32(js.n)) ELSE Err(SerdeWasmBindgenError(InvalidType))
      [] T = "usize" ->
            IF js.t = "number" THEN Ok(RUsize(js.n)) ELSE Err(SerdeWasmBindgenError(InvalidType))
      [] T = "bool" ->
            IF js.t = "boolean" THEN Ok(RBool(js.n = 1))
            ELSE Err(SerdeWasmBindgenError(InvalidType))
      [] T = "option" ->
            IF js.t \in {"undefined", "null"} THEN Ok(RNone)
            ELSE IF js.t = "number" THEN Ok(RSome(js.n))
            ELSE Err(SerdeWasmBindgenError(InvalidType))
      [] T = "seq" ->
            IF js.t = "array" THEN Ok(RSeq(js.elems))
            ELSE Err(SerdeWasmBindgenError(InvalidType))
      [] T = "map" ->
            IF js.t \in {"map", "object"} THEN Ok(RMap(js.fields))
            ELSE Err(SerdeWasmBindgenError(InvalidType))

Types == <<"i32", "option", "seq", "map">>

\* The Rust type a value is read back as.
TypeOf(r) == r.ty

(***************************************************************************)
(* Promises returned by the host, settled.                                 *)
(***************************************************************************)
Resolved(js) == [state |-> "resolved", v |-> js, msg |-> ""]
Rejected(msg) == [state |-> "rejected", v |-> JsUndefined, msg |-> msg]

(***************************************************************************)
(* The host's DurableObjectStorage.  Each host call is one transaction.    *)
(***************************************************************************)
\* get(key): the stored value, undefined when the key does not exist.
HostGet(s, key) == IF key \in DOMAIN s THEN s[key] ELSE JsUndefined

\* put(key, value): stores the structured clone of value.  What the host does
\* with the value undefined is not fixed by its contract: it refuses the call
\* or stores undefined.
HostPut(s, key, js) ==
    IF is_undefined(js)
    THEN {[store |-> s, promise |-> Rejected("put() called with undefined value.")],
          [store |-> Upd(s, key, js), promise |-> Resolved(JsUndefined)]}
    ELSE {[store |-> Upd(s, key, js), promise |-> Resolved(JsUndefined)]}

\* delete(key): removes the key; resolves to whether it existed.
HostDelete(s, key) ==
    [store |-> Restrict(s, (DOMAIN s) \ {key}), promise |-> Resolved(JsBool(key \in DOMAIN s))]

\* The entries the host reads from the object given to put(entries): the own
\* enumerable string-keyed properties.  A plain Object has its fields, an Array
\* its indices, a Map none.
HostDict(js) ==
    CASE js.t = "object" -> [k \in DOMAIN js.fields |-> JsNumber(js.fields[k])]
      [] js.t = "array" -> [k \in {IndexKey(i) : i \in DOMAIN js.elems} |->
                               JsNumber(js.elems[CHOOSE i \in DOMAIN js.elems : IndexKey(i) = k])]
      [] OTHER -> EmptyFn

\* put(entries): writes every entry in one transaction.  For an object that is
\* not a plain Object the host refuses the call or reads its properties.
HostPutMultiple(s, js) ==
    LET written == [store |-> Merge(s, HostDict(js)), promise |-> Resolved(JsUndefined)]
    IN  IF js.t = "object" THEN {written}
        ELSE {written, [store |-> s, promise |-> Rejected("Incorrect type for put() entries.")]}

RECURSIVE SortKeys(_)
SortKeys(S) ==
    IF S = {} THEN <<>>
    ELSE LET m == CHOOSE x \in S : \A y \in S \ {x} : KeyLess(x, y)
         IN  <<m>> \o SortKeys(S \ {m})

Reverse(q) == [i \in 1..Len(q) |-> q[Len(q) + 1 - i]]

Take(q, n) == SubSeq(q, 1, IF n < Len(q) THEN n ELSE Len(q))

EntriesOf(s, keyseq) == [i \in 1..Len(keyseq) |-> [k |-> keyseq[i], val |-> s[keyseq[i]]]]

\* get(keys): a Map of the keys that exist to their values.
HostGetMultiple(s, keys) ==
    Resolved(JsEntries(EntriesOf(s, SortKeys(Range(keys) \cap DOMAIN s))))

\* delete(keys): removes the keys; resolves to the number of pairs deleted.
HostDeleteMultiple(s, keys) ==
    [store |-> Restrict(s, (DOMAIN s) \ Range(keys)),
     promise |-> Resolved(JsNumber(Cardinality(Range(keys) \cap DOMAIN s)))]

\* deleteAll(): removes every key; when the operation fails in flight only a
\* subset of the data may have been deleted.
HostDeleteAll(s) ==
    {[store |-> EmptyFn, promise |-> Resolved(JsUndefined)]}
    \cup {[store |-> Restrict(s, D), promise |-> Rejected("deleteAll() failed")] :
             D \in SUBSET (DOMAIN s)}

\* list(options): the keys in ascending lexicographic order, from start
\* (inclusive) to end (exclusive), beginning with prefix; descending with
\* reverse; at most limit pairs.
HostList(s, o) ==
    LET match == {k \in DOMAIN s :
                     /\ "start" \in o.present => ~KeyLess(k, o.start)
                     /\ "end" \in o.present => KeyLess(k, o.end)
                     /\ "prefix" \in o.present => StartsWith(k, o.prefix)}
        asc == SortKeys(match)
        ord == IF "reverse" \in o.present /\ o.reverse THEN Reverse(asc) ELSE asc
        cut == IF "limit" \in o.present THEN Take(ord, o.limit) ELSE ord
    IN  Resolved(JsEntries(EntriesOf(s, cut)))

(***************************************************************************)
(* Storage methods: the conversion of the settled promise.                 *)
(***************************************************************************)
\* Storage::get
\* The deserialisation error reaches the caller as from_js_err(e.to_string()).
Deserialized(r) == IF r.ok THEN r ELSE Err(from_js_err(r.err.msg))

Storage_get_unchecked(s, key, T) == Deserialized(from_value(T, HostGet(s, key)))

Storage_get(s, key, T) ==
    LET val == HostGet(s, key)
    IN  IF is_undefined(val) THEN Err(from_js_err(NoSuchValue))
        ELSE Deserialized(from_value(T, val))

\* Storage::put: fut.await.map_err(from_promise_err).map(|_| ())
Storage_put_result(p) ==
    IF p.state = "resolved" THEN Ok(RUnit) ELSE Err(from_promise_err(p.msg))

\* Storage::delete: jsv.as_bool() or "Promise did not return bool"
Storage_delete_always_true(p) ==
    IF p.state = "resolved" THEN Ok(RBool(TRUE)) ELSE Err(from_promise_err(p.msg))

Storage_delete_result(p) ==
    IF p.state = "resolved"
    THEN IF p.v.t = "boolean" THEN Ok(RBool(p.v.n = 1))
         ELSE Err(from_promise_err("Promise did not return bool"))
    ELSE Err(from_promise_err(p.msg))

\* Storage::get_multiple: the keys become an Array of JS strings; the settled
\* value is cast to a Map.
get_multiple_keys_skip_first(keys) == IF keys = <<>> THEN keys ELSE Tail(keys)

get_multiple_keys(keys) == keys

Storage_get_multiple_result(p) ==
    IF p.state = "resolved"
    THEN IF p.v.t = "map" THEN Ok(RJsMap(p.v.entries)) ELSE Err(from_cast_err)
    ELSE Err(from_promise_err(p.msg))

\* Storage::put_multiple: the host calls the method issues: none when the
\* serialised value is not an object (MustPassInStructType), else one call
\* with the whole value.
RECURSIVE OneCallPerField(_, _)
OneCallPerField(f, keyseq) ==
    IF keyseq = <<>> THEN <<>>
    ELSE <<JsObject(Restrict(f, {keyseq[1]}))>> \o OneCallPerField(f, Tail(keyseq))

put_multiple_calls_per_field(js) ==
    IF ~is_object(js) THEN <<>>
    ELSE IF js.t = "object" THEN OneCallPerField(js.fields, SortKeys(DOMAIN js.fields))
    ELSE <<js>>

put_multiple_calls(js) == IF ~is_object(js) THEN <<>> ELSE <<js>>

Storage_put_multiple_result(p) ==
    IF p.state = "resolved" THEN Ok(RUnit) ELSE Err(from_promise_err(p.msg))

\* Storage::delete_multiple: jsv.as_f64() as usize
Storage_delete_multiple_result(p) ==
    IF p.state = "resolved"
    THEN IF p.v.t = "number" THEN Ok(RUsize(p.v.n))
         ELSE Err(from_promise_err("Promise did not return number"))
    ELSE Err(from_promise_err(p.msg))

\* Storage::delete_all: fut.await.map(|_| ()).map_err(from_promise_err)
Storage_delete_all_swallow(p) == Ok(RUnit)

Storage_delete_all_result(p) ==
    IF p.state = "resolved" THEN Ok(RUnit) ELSE Err(from_promise_err(p.msg))

\* ListOptions: each field an Option, <<>> for None and <<x>> for Some(x).
ListOptions(start, end, prefix, reverse, limit) ==
    [start |-> start, end |-> end, prefix |-> prefix, reverse |-> reverse, limit |-> limit]

ListOptionFields == {"start", "end", "prefix", "reverse", "limit"}

Unwrap(o, default) == IF o = <<>> THEN default ELSE o[1]

\* #[derive(Serialize)] with skip_serializing_if = "Option::is_none": the
\* options object holds the fields that are Some, under their own names.
SerializeListOptions_swapped(opts) ==
    [present |-> {f \in ListOptionFields : opts[f] # <<>>} ,
     start |-> Unwrap(opts.end, <<>>), end |-> Unwrap(opts.start, <<>>),
     prefix |-> Unwrap(opts.prefix, <<>>), reverse |-> Unwrap(opts.reverse, FALSE),
     limit |-> Unwrap(opts.limit, 0)]

SerializeListOptions(opts) ==
    [present |-> {f \in ListOptionFields : opts[f] # <<>>},
     start |-> Unwrap(opts.start, <<>>), end |-> Unwrap(opts.end, <<>>),
     prefix |-> Unwrap(opts.prefix, <<>>), reverse |-> Unwrap(opts.reverse, FALSE),
     limit |-> Unwrap(opts.limit, 0)]

\* list() passes no options object.
NoListOptions ==
    [present |-> {}, start |-> <<>>, end |-> <<>>, prefix |-> <<>>, reverse |-> FALSE,
     limit |-> 0]

\* Storage::list / list_with_options: jsv.dyn_into::<Map>()
Storage_list_result(p) ==
    IF p.state = "resolved"
    THEN IF p.v.t = "map" THEN Ok(RJsMap(p.v.entries))
         ELSE Err(from_promise_err("Unknown Javascript error"))
    ELSE Err(from_promise_err(p.msg))

(***************************************************************************)
(* Inputs.                                                                 *)
(***************************************************************************)
MaxKeysArg == 2     \* longest key list given to get_multiple / delete_multiple
MaxLimit == 2       \* largest list limit

Map12 == [k \in {KeyA, Key1} |-> IF k = KeyA THEN 1 ELSE 2]

\* struct Stuff { a: i32, ab: i32 }
Stuff(x, y) == RStruct([k \in {KeyA, KeyAB} |-> IF k = KeyA THEN x ELSE y])

PutValues == <<RI32(1), RNone, RSome(1), RSeq(<<1, 2>>), RMap(Map12)>>

PutMultipleValues == <<Stuff(2, 2), RSeq(<<1, 2>>), RMap(Map12), RI32(1), RNone>>

KeyLists == UNION {[1..n -> Keys] : n \in 0..MaxKeysArg}

OptKeys == {<<>>} \cup {<<k>> : k \in Keys}
OptBools == {<<>>, <<TRUE>>, <<FALSE>>}
OptLimits == {<<>>} \cup {<<n>> : n \in 0..MaxLimit}

Idle == [phase |-> "idle"]

(***************************************************************************)
(* Operations.  A Storage call is one host transaction followed by the     *)
(* conversion of its settled promise; `last` holds the settled call until  *)
(* the invocation that awaited it takes the result and goes on.  The await *)
(* of put_multiple is an explicit step: while it is pending the calling    *)
(* invocation is suspended and the actor's other invocations may read the  *)
(* storage.                                                                *)
(***************************************************************************)
NoCall == [op |-> "none"]

StorageInit ==
    /\ store = EmptyFn
    /\ last = NoCall
    /\ pm = Idle

NoRun == [phase |-> "idle", time |-> 0, id |-> 0, attempt |-> 0, at |-> 0, touched |-> FALSE]

AlarmInit ==
    /\ clock = 0
    /\ alarm = <<>>
    /\ alast = NoCall
    /\ run = NoRun
    /\ issued = 0
    /\ expect = <<>>
    /\ started = {}
    /\ done = {}
    /\ deleted = {}

MaxRequests == 3    \* requests the worker routes to the AlarmObject

Requests == 1..MaxRequests

NoRequest == [pc |-> "none", absent |-> FALSE, got |-> Ok(RUnit), ok |-> FALSE, body |-> "",
              err |-> NoError]

AlarmObjectInit == reqs = [r \in Requests |-> NoRequest]

ScheduleInit == held = <<>>

MaxBlocks == 2      \* calls of block_concurrency_while
MaxAwaits == 2      \* awaits inside the operation given to it

\* The events other than the operation: an inbound fetch, an alarm invocation,
\* and the continuation of an outbound call made outside the operation.
Events == {"fetch", "alarm", "continuation"}

NoBlock == [phase |-> "none", awaits |-> 0, count |-> 0]

NoEvent == [st |-> "none", deferred |-> FALSE, during |-> FALSE]

BlockInit ==
    /\ blk = NoBlock
    /\ ev = [e \in Events |-> NoEvent]

MaxInvocations == 3 \* invocations sent to the instance

Invocations == 1..MaxInvocations

\* What a handler awaits, in order: a storage operation or an outbound call.
HandlerAwaits == {<<>>, <<"storage">>, <<"outbound">>, <<"outbound", "storage">>}

NoInvocation == [st |-> "none", kind |-> "fetch", awaits |-> <<>>, promise |-> "none"]

InvokeInit == inv = [i \in Invocations |-> NoInvocation]

MaxFetches == 2     \* requests sent to the stubs of the objects

Fetches == 1..MaxFetches

\* The objects of the sandbox reached through id_from_name: the Counter of
\* namespace COUNTER and the MyClass of namespace MY_CLASS.
Objects == {"Counter", "MyClass"}

NoFetch ==
    [st |-> "none", object |-> "Counter", path |-> "/", after |-> {}, first |-> FALSE,
     nth |-> 0, load |-> 0, evicted |-> EmptyFn, kind |-> "none", num |-> 0, hostok |-> TRUE]

InstanceInit ==
    /\ objs = [o \in Objects |-> {}]
    /\ disk = [o \in Objects |-> EmptyFn]
    /\ states = <<>>
    /\ loads = [o \in Objects |-> 0]
    /\ news = [o \in Objects |-> 0]
    /\ atEvict = [o \in Objects |-> EmptyFn]
    /\ fetches = [f \in Fetches |-> NoFetch]

MaxIdCalls == 3     \* calls made on the namespaces

Namespaces == {"COUNTER", "MY_CLASS"}

NamespaceInit ==
    /\ ids = [ns \in Namespaces |-> {}]
    /\ nslog = <<>>

StubInit ==
    /\ own = {}
    /\ stub = NoCall

SendsInit == sends = <<>>

BareClasses == {"Counter", "AlarmObject"}
BareInit == bare = [store |-> [c \in BareClasses |-> 0], fired |-> <<>>]

GlueInit == glue = [console |-> <<>>, runs |-> <<>>]

EnvInit == envcalls = <<>>

MaxChunks == 2      \* chunks of the readable stream
MaxChunkLen == 3    \* bytes of a chunk
MaxBuf == 2         \* bytes a ReadBuf has room for

\* The bytes from..to, in order.
Bytes(from, to) == [i \in 1..(to + 1 - from) |-> from + i - 1]

\* The chunks of the given sizes of the bytes 1, 2, 3, ...
RECURSIVE ChunksOf(_, _)
ChunksOf(sizes, from) ==
    IF sizes = <<>> THEN <<>>
    ELSE <<Bytes(from, from + Head(sizes) - 1)>> \o ChunksOf(Tail(sizes), from + Head(sizes))

ReadingNone == [tag |-> "None", data |-> <<>>, settled |-> <<>>]
NoPoll == [res |-> "none", cap |-> 0, data |-> <<>>, put |-> <<>>]

\* A socket just connected: nothing read, the readable stream not locked.
\* The stream will give the chunks and then end, or fail.
Connected(chunks, ending) ==
    [chunks |-> chunks, ending |-> ending, read |-> ReadingNone, locked |-> FALSE,
     delivered |-> <<>>, taken |-> <<>>, last |-> NoPoll]

\* No socket yet.
SocketInit == sock = Connected(<<>>, "none")

MaxRaceFetches == 3     \* fetches sent to the Counter

RaceFetches == 1..MaxRaceFetches

NoRaceFetch == [pc |-> "none", got |-> <<>>, resp |-> 0]

\* The Counter of an object not yet loaded.
Raced(loaded, stored) ==
    [loaded |-> loaded, persisted |-> stored, stored |-> stored, count |-> 0,
     initialized |-> FALSE, overlap |-> FALSE, inv |-> [i \in RaceFetches |-> NoRaceFetch]]

RaceInit == race = Raced(FALSE, <<>>)

Init ==
    /\ StorageInit /\ AlarmInit /\ AlarmObjectInit /\ ScheduleInit /\ BlockInit
    /\ InvokeInit /\ InstanceInit /\ NamespaceInit
    /\ StubInit /\ SendsInit /\ BareInit /\ GlueInit /\ EnvInit /\ SocketInit /\ RaceInit

Get(key, T) ==
    /\ last = NoCall
    /\ last' = [op |-> "get", key |-> key, ty |-> T, res |-> Storage_get(store, key, T),
                pre |-> store, concurrent |-> pm.phase = "await"]
    /\ UNCHANGED <<store, pm, notStorageVars>>

GetMultiple(keys) ==
    /\ last = NoCall
    /\ last' = [op |-> "get_multiple", keys |-> keys,
                res |-> Storage_get_multiple_result(
                            HostGetMultiple(store, get_multiple_keys(keys))),
                pre |-> store, concurrent |-> pm.phase = "await"]
    /\ UNCHANGED <<store, pm, notStorageVars>>

List ==
    /\ last = NoCall
    /\ last' = [op |-> "list", opts |-> ListOptions(<<>>, <<>>, <<>>, <<>>, <<>>),
                res |-> Storage_list_result(HostList(store, NoListOptions)),
                pre |-> store, concurrent |-> pm.phase = "await"]
    /\ UNCHANGED <<store, pm, notStorageVars>>

ListWithOptions(opts) ==
    /\ last = NoCall
    /\ last' = [op |-> "list", opts |-> opts,
                res |-> Storage_list_result(HostList(store, SerializeListOptions(opts))),
                pre |-> store, concurrent |-> pm.phase = "await"]
    /\ UNCHANGED <<store, pm, notStorageVars>>

Put(key, value) ==
    /\ last = NoCall
    /\ pm.phase = "idle"
    /\ \E out \in HostPut(store, key, to_value(value)) :
          /\ store' = out.store
          /\ last' = [op |-> "put", key |-> key, value |-> value,
                      res |-> Storage_put_result(out.promise), pre |-> store]
    /\ UNCHANGED <<pm, notStorageVars>>

\* put_multiple up to its await: the value is serialised and checked, and the
\* first host call is issued.
PutMultipleIssue(value) ==
    /\ last = NoCall
    /\ pm.phase = "idle"
    /\ UNCHANGED notStorageVars
    /\ LET calls == put_multiple_calls(to_value(value))
       IN  IF calls = <<>>
           THEN /\ last' = [op |-> "put_multiple", value |-> value,
                            res |-> Err(MustPassInStructType), pre |-> store,
                            hostCalls |-> 0]
                /\ UNCHANGED <<store, pm>>
           ELSE \E out \in HostPutMultiple(store, calls[1]) :
                   /\ store' = out.store
                   /\ pm' = [phase |-> "await", value |-> value, pending |-> Tail(calls),
                             promise |-> out.promise, pre |-> store, hostCalls |-> 1]
                   /\ UNCHANGED last

\* The awaited promise settles and the invocation resumes.
PutMultipleSettle ==
    /\ last = NoCall
    /\ pm.phase = "await"
    /\ UNCHANGED notStorageVars
    /\ IF pm.pending = <<>> \/ pm.promise.state = "rejected"
       THEN /\ last' = [op |-> "put_multiple", value |-> pm.value,
                        res |-> Storage_put_multiple_result(pm.promise), pre |-> pm.pre,
                        hostCalls |-> pm.hostCalls]
            /\ pm' = Idle
            /\ UNCHANGED store
       ELSE \E out \in HostPutMultiple(store, pm.pending[1]) :
               /\ store' = out.store
               /\ pm' = [pm EXCEPT !.pending = Tail(@), !.promise = out.promise,
                                   !.hostCalls = @ + 1]
               /\ UNCHANGED last

Delete(key) ==
    /\ last = NoCall
    /\ pm.phase = "idle"
    /\ LET out == HostDelete(store, key)
       IN  /\ store' = out.store
           /\ last' = [op |-> "delete", key |-> key,
                       res |-> Storage_delete_result(out.promise), pre |-> store]
    /\ UNCHANGED <<pm, notStorageVars>>

DeleteMultiple(keys) ==
    /\ last = NoCall
    /\ pm.phase = "idle"
    /\ LET out == HostDeleteMultiple(store, keys)
       IN  /\ store' = out.store
           /\ last' = [op |-> "delete_multiple", keys |-> keys,
                       res |-> Storage_delete_multiple_result(out.promise), pre |-> store]
    /\ UNCHANGED <<pm, notStorageVars>>

DeleteAll ==
    /\ last = NoCall
    /\ pm.phase = "idle"
    /\ \E out \in HostDeleteAll(store) :
          /\ store' = out.store
          /\ last' = [op |-> "delete_all", res |-> Storage_delete_all_result(out.promise),
                      pre |-> store]
    /\ UNCHANGED <<pm, notStorageVars>>

\* The invocation that awaited the settled call takes its result.
TakeResult ==
    /\ last # NoCall
    /\ last' = NoCall
    /\ UNCHANGED <<store, pm, notStorageVars>>

Next ==
    \/ TakeResult
    \/ \E k \in Keys, i \in DOMAIN Types : Get(k, Types[i])
    \/ \E keys \in KeyLists : GetMultiple(keys)
    \/ List
    \/ \E k \in Keys, i \in DOMAIN PutValues : Put(k, PutValues[i])
    \/ \E i \in DOMAIN PutMultipleValues : PutMultipleIssue(PutMultipleValues[i])
    \/ PutMultipleSettle
    \/ \E k \in Keys : Delete(k)
    \/ \E keys \in KeyLists : DeleteMultiple(keys)
    \/ DeleteAll

Spec == Init /\ [][Next]_vars

(***************************************************************************)
(* Claims about Storage.                                                   *)
(***************************************************************************)
EntryKeys(entries) == {entries[i].k : i \in DOMAIN entries}

\* C1: in the state a successful put(k, v) leaves, a get(k) that reads the
\* value back as the type of v returns exactly v, for every value shape
\* (number, option, sequence, string-keyed map).
C1_PutThenGetReturnsValue ==
    (last.op = "put" /\ last.res.ok)
        => Storage_get(store, last.key, TypeOf(last.value)) = Ok(last.value)

\* C2: a get of a key that is not in storage returns the error
\* "No such value in storage." and leaves the storage as it was.
C2_GetAbsentIsNotFound ==
    (last.op = "get" /\ last.key \notin DOMAIN last.pre)
        => /\ last.res = Err(JsError(NoSuchValue))
           /\ store = last.pre

C2_Witness ==
    /\ last.op = "get"
    /\ last.key \notin DOMAIN last.pre
    /\ last.pre # EmptyFn
    /\ ~last.res.ok

\* C3: while a put_multiple is awaited, the storage the actor's other
\* invocations read holds either every entry of the call or, under the keys of
\* the call, exactly what it held before the call: never a part of the entries.
PutMultipleEntries == HostDict(to_value(pm.value))

C3_PutMultipleAtomic ==
    pm.phase = "await"
        => \/ \A k \in DOMAIN PutMultipleEntries :
                 k \in DOMAIN store /\ store[k] = PutMultipleEntries[k]
           \/ Restrict(store, DOMAIN PutMultipleEntries)
                 = Restrict(pm.pre, DOMAIN PutMultipleEntries)

C3_Witness ==
    /\ pm.phase = "await"
    /\ pm.value.ty = "struct"
    /\ Cardinality(DOMAIN PutMultipleEntries) = 2
    /\ Restrict(pm.pre, DOMAIN PutMultipleEntries) = EmptyFn
    /\ last.op = "get_multiple"
    /\ last.concurrent
    /\ last.res.ok
    /\ EntryKeys(last.res.v.entries) = DOMAIN PutMultipleEntries

\* C4: put_multiple of a value that is neither a struct nor a string-keyed map
\* fails with MustPassInStructType, issues no host call and leaves the storage
\* as it was.
C4_NonStructRejectedBeforeWrite ==
    (last.op = "put_multiple" /\ last.value.ty \notin {"struct", "map"})
        => /\ last.res = Err(MustPassInStructType)
           /\ last.hostCalls = 0
           /\ store = last.pre

\* C6: delete(k) returns true exactly when k existed and removes only k; a
\* delete(k) that follows it returns false and changes nothing.
C6_DeleteReturnsExisted ==
    last.op = "delete"
        => /\ last.res = Ok(RBool(last.key \in DOMAIN last.pre))
           /\ store = Restrict(last.pre, (DOMAIN last.pre) \ {last.key})
           /\ LET again == HostDelete(store, last.key)
              IN  /\ Storage_delete_result(again.promise) = Ok(RBool(FALSE))
                  /\ again.store = store

C6_Witness ==
    /\ last.op = "delete"
    /\ last.key \in DOMAIN last.pre
    /\ last.res = Ok(RBool(TRUE))
    /\ store # EmptyFn

\* C7: get_multiple(keys) succeeds with a map whose keys are exactly the
\* requested keys that exist, each with its stored value; absent keys are
\* left out.
C7_GetMultiplePresentOnly ==
    last.op = "get_multiple"
        => /\ last.res.ok
           /\ LET e == last.res.v.entries
              IN  /\ EntryKeys(e) = Range(last.keys) \cap DOMAIN last.pre
                  /\ Len(e) = Cardinality(EntryKeys(e))
                  /\ \A i \in DOMAIN e : e[i].val = last.pre[e[i].k]
           /\ store = last.pre

C7_Witness ==
    /\ last.op = "get_multiple"
    /\ Len(last.keys) = 2
    /\ last.keys[1] \in DOMAIN last.pre
    /\ last.keys[2] \notin DOMAIN last.pre
    /\ last.res.ok
    /\ Len(last.res.v.entries) = 1

\* C8: after a delete_all that succeeds the storage is empty: list() is empty
\* and every get fails; after one that fails the storage is a part of what it
\* was, with the values unchanged.
C8_DeleteAll ==
    last.op = "delete_all"
        => /\ last.res.ok =>
                 /\ store = EmptyFn
                 /\ Storage_list_result(HostList(store, NoListOptions)) = Ok(RJsMap(<<>>))
                 /\ \A k \in Keys, i \in DOMAIN Types : ~Storage_get(store, k, Types[i]).ok
           /\ DOMAIN store \subseteq DOMAIN last.pre
           /\ \A k \in DOMAIN store : store[k] = last.pre[k]

C8_Witness ==
    /\ last.op = "delete_all"
    /\ ~last.res.ok
    /\ store # EmptyFn
    /\ DOMAIN store # DOMAIN last.pre

C8_WitnessSuccess ==
    /\ last.op = "delete_all"
    /\ last.res.ok
    /\ Cardinality(DOMAIN last.pre) >= 2

(***************************************************************************)
(* Listing: the storage holds numbers and sequences under any of the keys, *)
(* and is listed with every combination of options.                        *)
(***************************************************************************)
ListValues == <<RI32(1), RSeq(<<1, 2>>)>>

NextList ==
    \/ TakeResult
    \/ \E k \in Keys, i \in DOMAIN ListValues : Put(k, ListValues[i])
    \/ \E k \in Keys : Delete(k)
    \/ List
    \/ \E start \in OptKeys, end \in OptKeys, prefix \in OptKeys,
          reverse \in OptBools, limit \in OptLimits :
          ListWithOptions(ListOptions(start, end, prefix, reverse, limit))

SpecList == Init /\ [][NextList]_vars

\* C5: list returns exactly the live keys k with start <= k, k < end and the
\* prefix, ascending (descending with reverse), cut to the first `limit` of
\* them in that order, each with its value; list() returns every live key
\* ascending.
ListMatches(s, o) ==
    {k \in DOMAIN s :
        /\ o.start # <<>> => ~KeyLess(k, o.start[1])
        /\ o.end # <<>> => KeyLess(k, o.end[1])
        /\ o.prefix # <<>> => StartsWith(k, o.prefix[1])}

ListBefore(o, a, b) == IF o.reverse = <<TRUE>> THEN KeyLess(b, a) ELSE KeyLess(a, b)

C5_ListRangeOrderLimit ==
    last.op = "list"
        => /\ last.res.ok
           /\ store = last.pre
           /\ LET o == last.opts
                  r == last.res.v.entries
                  M == ListMatches(last.pre, o)
              IN  /\ \A i \in DOMAIN r : r[i].k \in M /\ r[i].val = last.pre[r[i].k]
                  /\ \A i \in 1..(Len(r) - 1) : ListBefore(o, r[i].k, r[i + 1].k)
                  /\ Len(r) = IF o.limit # <<>> /\ o.limit[1] < Cardinality(M)
                              THEN o.limit[1] ELSE Cardinality(M)
                  /\ \A k \in M \ EntryKeys(r) : \A i \in DOMAIN r : ListBefore(o, r[i].k, k)

C5_Witness ==
    /\ last.op = "list"
    /\ DOMAIN last.pre = Keys
    /\ last.opts = ListOptions(<<Key1>>, <<KeyAB>>, <<>>, <<TRUE>>, <<1>>)
    /\ last.res.ok
    /\ EntryKeys(last.res.v.entries) = {KeyA}

(***************************************************************************)
(* Alarms.                                                                 *)
(***************************************************************************)
MaxClock == 2       \* the clock runs from 0 to MaxClock
MaxTime == 3        \* latest absolute alarm time given to set_alarm
MaxOffset == 1      \* largest offset given to set_alarm
MaxAlarms == 2      \* set_alarm calls in a run
MaxRetries == 1     \* retries the host makes of an alarm whose handler failed

JsDate(ms) == JsVal("date", ms, <<>>, EmptyFn, <<>>)

\* ScheduledTime: From<DateTime<Utc>> holds the Date of timestamp_millis(),
\* From<Duration> and From<i64> hold the offset in milliseconds.
ScheduledTimeDate(ms) == [init |-> "Date", v |-> ms]
ScheduledTimeOffset(ms) == [init |-> "Offset", v |-> ms]

ScheduledTimes ==
    {ScheduledTimeDate(t) : t \in 0..MaxTime} \cup {ScheduledTimeOffset(d) : d \in 0..MaxOffset}

\* ScheduledTime::schedule: the Date as it is; for an offset, Date::now() + offset.
schedule_offset_only(st, now) == JsDate(st.v)

schedule(st, now) ==
    IF st.init = "Date" THEN JsDate(st.v) ELSE JsDate(now + st.v)

ScheduledTimestampOf(st, now) == IF st.init = "Date" THEN st.v ELSE now + st.v

\* An alarm call made while the handler runs is noted by the host.
Touched(r) == IF r.phase = "running" THEN [r EXCEPT !.touched = TRUE] ELSE r

\* The host's alarm slot holds at most one alarm: its time, which alarm set by
\* the actor it is, and how many times its handler has been started.
PendingAlarm(time, id, attempt) == [time |-> time, id |-> id, attempt |-> attempt]

\* getAlarm(): the time of the pending alarm in milliseconds, null when none is set.
HostGetAlarm(slot) ==
    Resolved(IF slot = <<>> THEN JsNull ELSE JsNumber(slot[1].time))

\* setAlarm(date): the alarm is set to the date and replaces the one pending.
HostSetAlarm(date, id) ==
    [alarm |-> <<PendingAlarm(date.n, id, 0)>>, promise |-> Resolved(JsUndefined)]

\* deleteAlarm(): removes the alarm if one exists.
HostDeleteAlarm == [alarm |-> <<>>, promise |-> Resolved(JsUndefined)]

\* Storage::get_alarm: jsv.as_f64().map(|f| f as i64)
Storage_get_alarm_as_string(p) ==
    IF p.state = "resolved" THEN Ok(RNone) ELSE Err(from_promise_err(p.msg))

Storage_get_alarm_result(p) ==
    IF p.state = "resolved"
    THEN IF p.v.t = "number" THEN Ok(RSome(p.v.n)) ELSE Ok(RNone)
    ELSE Err(from_promise_err(p.msg))

\* Storage::set_alarm / delete_alarm: fut.await.map(|_| ()).map_err(from_promise_err)
Storage_alarm_unit_result(p) ==
    IF p.state = "resolved" THEN Ok(RUnit) ELSE Err(from_promise_err(p.msg))

\* #[durable_object] _alarm: future_to_promise of the handler's Result: Ok
\* resolves the promise given to the host, Err rejects it.
alarm_promise_always_rejected(result) == Rejected(result.err.msg)

alarm_promise(result) ==
    IF result.ok THEN Resolved(JsUndefined) ELSE Rejected(result.err.msg)

HandlerResults == <<Ok(RUnit), Err(JsError("alarm handler failed"))>>

Tick ==
    /\ clock < MaxClock
    /\ clock' = clock + 1
    /\ UNCHANGED <<alarm, alast, run, issued, expect, started, done, deleted, notAlarmVars>>

GetAlarm ==
    /\ alast = NoCall
    /\ alast' = [op |-> "get_alarm", res |-> Storage_get_alarm_result(HostGetAlarm(alarm)),
                 pre |-> alarm, expect |-> expect, started |-> started]
    /\ UNCHANGED <<clock, alarm, run, issued, expect, started, done, deleted, notAlarmVars>>

SetAlarm(scheduled_time) ==
    /\ alast = NoCall
    /\ issued < MaxAlarms
    /\ LET out == HostSetAlarm(schedule(scheduled_time, clock), issued + 1)
       IN  /\ alarm' = out.alarm
           /\ alast' = [op |-> "set_alarm", scheduled_time |-> scheduled_time,
                        now |-> clock, res |-> Storage_alarm_unit_result(out.promise),
                        pre |-> alarm]
    /\ issued' = issued + 1
    /\ expect' = <<[time |-> ScheduledTimestampOf(scheduled_time, clock), id |-> issued + 1]>>
    /\ run' = Touched(run)
    /\ UNCHANGED <<clock, started, done, deleted, notAlarmVars>>

DeleteAlarm ==
    /\ alast = NoCall
    /\ LET out == HostDeleteAlarm
       IN  /\ alarm' = out.alarm
           /\ alast' = [op |-> "delete_alarm", res |-> Storage_alarm_unit_result(out.promise),
                        pre |-> alarm]
    /\ deleted' = IF alarm # <<>> /\ alarm[1].id \notin started
                  THEN deleted \cup {alarm[1].id} ELSE deleted
    /\ expect' = <<>>
    /\ run' = Touched(run)
    /\ UNCHANGED <<clock, issued, started, done, notAlarmVars>>

TakeAlarmResult ==
    /\ alast # NoCall
    /\ alast' = NoCall
    /\ UNCHANGED <<clock, alarm, run, issued, expect, started, done, deleted, notAlarmVars>>

\* The host starts the alarm handler: the pending alarm's time has come and no
\* handler is running.  The alarm is no longer set once its handler has started.
AlarmStart ==
    /\ run.phase = "idle"
    /\ alarm # <<>>
    /\ alarm[1].time <= clock
    /\ run' = [phase |-> "running", time |-> alarm[1].time, id |-> alarm[1].id,
               attempt |-> alarm[1].attempt + 1, at |-> clock, touched |-> FALSE]
    /\ alarm' = <<>>
    /\ started' = started \cup {alarm[1].id}
    /\ UNCHANGED <<clock, alast, issued, expect, done, deleted, notAlarmVars>>

\* The handler returns and the promise _alarm gave to the host settles.  A
\* rejected promise makes the host set the alarm again for a retry, unless the
\* actor has set or deleted the alarm meanwhile or the retries are used up.
AlarmReturn(result) ==
    /\ run.phase = "running"
    /\ done' = IF result.ok THEN done \cup {run.id} ELSE done
    /\ alarm' = IF /\ alarm_promise(result).state = "rejected"
                   /\ ~run.touched
                   /\ run.attempt <= MaxRetries
                THEN <<PendingAlarm(run.time, run.id, run.attempt)>>
                ELSE alarm
    /\ run' = NoRun
    /\ UNCHANGED <<clock, alast, issued, expect, started, deleted, notAlarmVars>>

NextAlarm ==
    \/ Tick
    \/ GetAlarm
    \/ \E st \in ScheduledTimes : SetAlarm(st)
    \/ DeleteAlarm
    \/ TakeAlarmResult
    \/ AlarmStart
    \/ \E i \in DOMAIN HandlerResults : AlarmReturn(HandlerResults[i])

SpecAlarm == Init /\ [][NextAlarm]_vars

\* C9 as stated: get_alarm returns the timestamp of the set_alarm made last,
\* and None after a delete_alarm with no later set_alarm.
C9_GetAlarmReturnsLastSet ==
    alast.op = "get_alarm"
        => alast.res = Ok(IF alast.expect = <<>> THEN RNone
                          ELSE RSome(alast.expect[1].time))

\* C9, amended: the actor has at most one pending alarm; get_alarm returns the
\* timestamp of the set_alarm made last for as long as the handler of that
\* alarm has not been started, and None after a delete_alarm with no later
\* set_alarm.
C9_OnePendingAlarm ==
    /\ Len(alarm) <= 1
    /\ alast.op = "get_alarm"
          => /\ alast.expect = <<>> => alast.res = Ok(RNone)
             /\ (alast.expect # <<>> /\ alast.expect[1].id \notin alast.started)
                   => alast.res = Ok(RSome(alast.expect[1].time))

C9_Witness ==
    /\ alast.op = "get_alarm"
    /\ alast.expect # <<>>
    /\ alast.expect[1].id = 2
    /\ alast.started = {}
    /\ alast.pre[1].time # 0
    /\ alast.res = Ok(RSome(alast.expect[1].time))

C9_WitnessDeleted ==
    /\ alast.op = "get_alarm"
    /\ alast.expect = <<>>
    /\ alast.pre = <<>>
    /\ deleted # {}
    /\ alast.res = Ok(RNone)

\* C10: an alarm handler runs only for an alarm that was pending and whose
\* time had come; an alarm whose handler has succeeded is not delivered again;
\* and an alarm removed by delete_alarm before its handler had started is
\* never delivered.
C10_AlarmDelivery ==
    /\ run.phase = "running"
          => /\ run.id \in 1..issued
             /\ run.id \in started
             /\ alarm = <<>> \/ alarm[1].id # run.id
             /\ run.time <= run.at
             /\ run.at <= clock
             /\ run.id \notin done
             /\ run.id \notin deleted
    /\ alarm # <<>> => alarm[1].id \notin done
    /\ done \cap deleted = {}

C10_Witness ==
    /\ run.phase = "running"
    /\ run.id = 2
    /\ 1 \in deleted
    /\ run.time = clock

C10_WitnessDone ==
    /\ run.phase = "idle"
    /\ 1 \in done
    /\ alarm = <<>>
    /\ issued = 1

(***************************************************************************)
(* The AlarmObject of the sandbox.                                         *)
(***************************************************************************)
\* "alarmed"
KeyAlarmed == <<4>>

\* Duration::from_millis(100)
AlarmDelay == 100

\* Display of WorkerError (thiserror): the #[error("...")] text of the variant.
WorkerError_to_string(e) ==
    CASE e.kind = "JsError" -> "javascript error: " \o e.msg
      [] e.kind = "AwaitPromise" -> "await promise error: " \o e.msg
      [] e.kind = "SerdeWasmBindgenError" -> "serde-wasm-bindgen error: " \o e.msg
      [] e.kind = "MustPassInStructType" -> "Must pass in a struct type"
      [] e.kind = "JsCast" -> "Failed to cast a JsValue"
      [] e.kind = "UndefinedBinding" -> e.msg

\* bool::to_string
bool_to_string(r) == IF r.n = 1 THEN "true" ELSE "false"

\* The Result a handler returns: the body of its Response, or the error.
Responded(body) == [ok |-> TRUE, body |-> body, err |-> NoError]
Failed(e) == [ok |-> FALSE, body |-> "", err |-> e]

\* main, (GET, "/durable/alarm"): the worker sends the request to the stub of
\* id_from_name("alarm").
RouteDurableAlarm(r) ==
    /\ reqs[r].pc = "none"
    /\ reqs' = [reqs EXCEPT ![r].pc = "sent"]
    /\ UNCHANGED <<storageVars, alarmVars, restVars>>

\* AlarmObject::fetch up to the await of get("alarmed").  The host gives the
\* actor one request at a time.
AlarmObject_fetch_get(r) ==
    /\ reqs[r].pc = "sent"
    /\ \A q \in Requests : reqs[q].pc # "got"
    /\ run.phase = "idle"
    /\ reqs' = [reqs EXCEPT ![r].pc = "got",
                            ![r].absent = KeyAlarmed \notin DOMAIN store,
                            ![r].got = Storage_get(store, KeyAlarmed, "bool")]
    /\ UNCHANGED <<storageVars, alarmVars, restVars>>

\* AlarmObject::fetch, the match on the result of get: the value read; or,
\* for the error whose text is "No such value in storage.", set_alarm in
\* 100 ms and false; or the error.
AlarmObject_fetch_match(r) ==
    /\ reqs[r].pc = "got"
    /\ LET got == reqs[r].got
           out == HostSetAlarm(schedule(ScheduledTimeOffset(AlarmDelay), clock), issued + 1)
           set == Storage_alarm_unit_result(out.promise)
       IN  IF got.ok
           THEN /\ reqs' = [reqs EXCEPT ![r].pc = "done", ![r].ok = TRUE,
                                        ![r].body = bool_to_string(got.v)]
                /\ UNCHANGED alarmVars
           ELSE IF WorkerError_to_string(got.err) = NoSuchValue
           THEN /\ alarm' = out.alarm
                /\ issued' = issued + 1
                /\ expect' = <<[time |-> clock + AlarmDelay, id |-> issued + 1]>>
                /\ reqs' = IF set.ok
                           THEN [reqs EXCEPT ![r].pc = "done", ![r].ok = TRUE,
                                             ![r].body = "false"]
                           ELSE [reqs EXCEPT ![r].pc = "done", ![r].err = set.err]
                /\ UNCHANGED <<clock, alast, run, started, done, deleted>>
           ELSE /\ reqs' = [reqs EXCEPT ![r].pc = "done", ![r].err = got.err]
                /\ UNCHANGED alarmVars
    /\ UNCHANGED <<storageVars, restVars>>

\* AlarmObject::alarm: put("alarmed", true)?, then the response "ALARMED":
\* the storage the handler leaves and the Result it returns.
AlarmObject_alarm(s) ==
    {[store |-> out.store,
      result |-> IF Storage_put_result(out.promise).ok
                 THEN Responded("ALARMED")
                 ELSE Failed(Storage_put_result(out.promise).err)] :
        out \in HostPut(s, KeyAlarmed, to_value(RBool(TRUE)))}

\* The requests and the clock.  No step of the host starts the alarm handler
\* here: the host starts it for a pending alarm only, and the only set_alarm
\* of the AlarmObject is the one in fetch.
NextAlarmObject ==
    \/ Tick
    \/ \E r \in Requests : RouteDurableAlarm(r)
    \/ \E r \in Requests : AlarmObject_fetch_get(r)
    \/ \E r \in Requests : AlarmObject_fetch_match(r)

SpecAlarmObject == Init /\ [][NextAlarmObject]_vars

\* C11: a fetch whose get("alarmed") ran before the alarm handler had
\* written 'alarmed' returns the body "false".
C11_FetchBeforeAlarmReturnsFalse ==
    \A r \in Requests :
        (reqs[r].pc = "done" /\ reqs[r].absent)
            => /\ reqs[r].ok
               /\ reqs[r].body = "false"

(***************************************************************************)
(* ScheduledTime: constructed at one time, given to set_alarm at another.  *)
(***************************************************************************)
\* From<DateTime<Utc>>, From<Duration>, From<i64>: the value holds the Date or
\* the offset; `made` is the clock at its construction.
MakeScheduledTime(st) ==
    /\ held = <<>>
    /\ held' = <<[st |-> st, made |-> clock]>>
    /\ UNCHANGED <<storageVars, alarmVars, alarmObjectVars, blockVars, invokeVars, moreVars>>

\* Storage::set_alarm(scheduled_time): schedule() is evaluated in the call.
SetAlarmHeld ==
    /\ alast = NoCall
    /\ held # <<>>
    /\ issued < MaxAlarms
    /\ LET st == held[1].st
           out == HostSetAlarm(schedule(st, clock), issued + 1)
       IN  /\ alarm' = out.alarm
           /\ alast' = [op |-> "set_alarm", scheduled_time |-> st, made |-> held[1].made,
                        now |-> clock, res |-> Storage_alarm_unit_result(out.promise),
                        pre |-> alarm, post |-> out.alarm]
           /\ expect' = <<[time |-> ScheduledTimestampOf(st, clock), id |-> issued + 1]>>
    /\ issued' = issued + 1
    /\ run' = Touched(run)
    /\ held' = <<>>
    /\ UNCHANGED <<clock, started, done, deleted, storageVars, alarmObjectVars, blockVars, invokeVars, moreVars>>

NextSchedule ==
    \/ Tick
    \/ \E st \in ScheduledTimes : MakeScheduledTime(st)
    \/ SetAlarmHeld
    \/ GetAlarm
    \/ TakeAlarmResult

SpecSchedule == Init /\ [][NextSchedule]_vars

\* C12: set_alarm given an offset d sets the alarm to the clock at the call
\* plus d, whenever the ScheduledTime was constructed; given a timestamp t it
\* sets the alarm to t, whatever the clock.
C12_OffsetFromCallTime ==
    (alast.op = "set_alarm" /\ alast.res.ok)
        => /\ Len(alast.post) = 1
           /\ alast.scheduled_time.init = "Offset"
                 => alast.post[1].time = alast.now + alast.scheduled_time.v
           /\ alast.scheduled_time.init = "Date"
                 => alast.post[1].time = alast.scheduled_time.v

C12_Witness ==
    /\ alast.op = "set_alarm"
    /\ alast.res.ok
    /\ alast.scheduled_time = ScheduledTimeOffset(MaxOffset)
    /\ alast.made = 0
    /\ alast.now = MaxClock
    /\ alast.post[1].time = MaxClock + MaxOffset

(***************************************************************************)
(* State::block_concurrency_while.                                         *)
(***************************************************************************)
\* future_to_promise(async { future.await; Ok(JsValue::UNDEFINED) }): the
\* promise handed to the host is pending until the future has completed and
\* is resolved from then on.
block_promise_resolved_at_once(b) == "resolved"

block_promise_never_resolved(b) == "pending"

block_promise(b) == IF b.phase = "done" THEN "resolved" ELSE "pending"

\* blockConcurrencyWhile(promise): the host delivers no other event to the
\* actor while the promise it was handed is pending.
HostBlocked(b) == b.phase # "none" /\ block_promise(b) = "pending"

\* The future has been given to block_concurrency_while and has not completed.
OperationRunning == blk.phase = "running"

\* State::block_concurrency_while(future), the future having n awaits.
BlockConcurrencyWhile(n) ==
    /\ blk.phase \in {"none", "done"}
    /\ blk.count < MaxBlocks
    /\ blk' = [phase |-> "running", awaits |-> n, count |-> blk.count + 1]
    /\ UNCHANGED <<ev, storageVars, alarmVars, alarmObjectVars, scheduleVars, invokeVars, moreVars>>

\* An await made inside the operation is resumed; the block does not hold it back.
InnerResume ==
    /\ blk.phase = "running"
    /\ blk.awaits > 0
    /\ blk' = [blk EXCEPT !.awaits = blk.awaits - 1]
    /\ UNCHANGED <<ev, storageVars, alarmVars, alarmObjectVars, scheduleVars, invokeVars, moreVars>>

\* The future completes: future.await returns and the promise resolves.
OperationComplete ==
    /\ blk.phase = "running"
    /\ blk.awaits = 0
    /\ blk' = [blk EXCEPT !.phase = "done"]
    /\ UNCHANGED <<ev, storageVars, alarmVars, alarmObjectVars, scheduleVars, invokeVars, moreVars>>

\* An invocation outside the operation makes an outbound call and awaits it.
OutboundCall ==
    /\ ~OperationRunning
    /\ ev["continuation"].st = "none"
    /\ ev' = [ev EXCEPT !["continuation"].st = "waiting"]
    /\ UNCHANGED <<blk, storageVars, alarmVars, alarmObjectVars, scheduleVars, invokeVars, moreVars>>

\* An event reaches the actor: a request or an alarm arrives, or the outbound
\* call returns.  It waits in the host's queue until it is delivered.
Arrive(e) ==
    /\ ev[e].st = IF e = "continuation" THEN "waiting" ELSE "none"
    /\ ev' = [ev EXCEPT ![e].st = "queued", ![e].deferred = HostBlocked(blk)]
    /\ UNCHANGED <<blk, storageVars, alarmVars, alarmObjectVars, scheduleVars, invokeVars, moreVars>>

\* The host delivers a queued event: the handler starts, or the continuation
\* is resumed.
Deliver(e) ==
    /\ ev[e].st = "queued"
    /\ ~HostBlocked(blk)
    /\ ev' = [ev EXCEPT ![e].st = "delivered", ![e].during = OperationRunning]
    /\ UNCHANGED <<blk, storageVars, alarmVars, alarmObjectVars, scheduleVars, invokeVars, moreVars>>

NextBlock ==
    \/ \E n \in 0..MaxAwaits : BlockConcurrencyWhile(n)
    \/ InnerResume
    \/ OperationComplete
    \/ OutboundCall
    \/ \E e \in Events : Arrive(e)
    \/ \E e \in Events : Deliver(e)

SpecBlock == Init /\ [][NextBlock]_vars

\* C13: no event is delivered to the actor while the operation given to
\* block_concurrency_while has not completed: no fetch or alarm invocation
\* starts and no continuation of an outbound call made outside it is resumed.
C13_NoDeliveryWhileBlocked ==
    /\ [](\A e \in Events : ~ev[e].during)
    /\ [][\A e \in Events :
             (OperationRunning /\ ev[e].st = "queued") => ev'[e].st = "queued"]_vars
C13_Witness ==
    /\ OperationRunning
    /\ blk.awaits > 0
    /\ \A e \in Events : ev[e].st = "queued" /\ ev[e].deferred

\* The host's event loop is fair to the actor: an await of the operation that
\* can be resumed is resumed, an operation that can complete completes, and a
\* queued event that stays deliverable is delivered.
SpecBlockFair ==
    /\ SpecBlock
    /\ WF_vars(InnerResume)
    /\ WF_vars(OperationComplete)
    /\ \A e \in Events : WF_vars(Deliver(e))

\* C14: an event held back by block_concurrency_while stays queued until it is
\* delivered, and it is delivered in the end; the operation's own awaits are
\* resumed while the block is held, so the operation completes.
C14_DeferredThenDelivered ==
    /\ [][\A e \in Events :
             ev[e].st = "queued" => ev'[e].st \in {"queued", "delivered"}]_vars
    /\ \A e \in Events : (ev[e].st = "queued") ~> (ev[e].st = "delivered")
    /\ OperationRunning ~> (blk.phase = "done")

C14_Witness ==
    /\ blk.phase = "done"
    /\ blk.count = MaxBlocks
    /\ \A e \in Events : ev[e].st = "delivered" /\ ev[e].deferred

(***************************************************************************)
(* Invocations of one actor instance: the #[durable_object] glue.          *)
(***************************************************************************)
\* #[durable_object] _fetch: future_to_promise of the handler's Result: Ok
\* resolves the promise given to the host, Err rejects it.
fetch_promise(result) ==
    IF result.ok THEN Resolved(JsUndefined) ELSE Rejected(result.err.msg)

\* The invocation's handler has been started and its promise has not settled.
InProgress(i) == inv[i].st \in {"executing", "awaitStorage", "awaitOutbound"}

\* The host's input gate: it hands the actor no event while one of its
\* invocations is executing or has a storage operation pending.
InputGateAlwaysOpen == TRUE

InputGateOpen == \A j \in Invocations : inv[j].st \notin {"executing", "awaitStorage"}

\* A request is sent to the stub of the instance, or its alarm falls due.
Invoke(i, kind, awaits) ==
    /\ inv[i].st = "none"
    /\ inv' = [inv EXCEPT ![i] = [st |-> "queued", kind |-> kind, awaits |-> awaits,
                                  promise |-> "none"]]
    /\ UNCHANGED <<storageVars, alarmVars, alarmObjectVars, scheduleVars, blockVars, moreVars>>

\* The host calls _fetch or _alarm: the handler starts as a future of its own
\* and the promise is returned to the host, pending.
HandlerStart(i) ==
    /\ inv[i].st = "queued"
    /\ InputGateOpen
    /\ inv' = [inv EXCEPT ![i].st = "executing", ![i].promise = "pending"]
    /\ UNCHANGED <<storageVars, alarmVars, alarmObjectVars, scheduleVars, blockVars, moreVars>>

\* The handler reaches its next await and is suspended.
HandlerAwait(i) ==
    /\ inv[i].st = "executing"
    /\ inv[i].awaits # <<>>
    /\ inv' = [inv EXCEPT ![i].st = IF Head(inv[i].awaits) = "storage"
                                    THEN "awaitStorage" ELSE "awaitOutbound",
                          ![i].awaits = Tail(inv[i].awaits)]
    /\ UNCHANGED <<storageVars, alarmVars, alarmObjectVars, scheduleVars, blockVars, moreVars>>

\* What the handler awaited has settled and the host resumes it.
HandlerResume(i) ==
    /\ inv[i].st \in {"awaitStorage", "awaitOutbound"}
    /\ \A j \in Invocations \ {i} : inv[j].st \notin {"executing", "awaitStorage"}
    /\ inv' = [inv EXCEPT ![i].st = "executing"]
    /\ UNCHANGED <<storageVars, alarmVars, alarmObjectVars, scheduleVars, blockVars, moreVars>>

\* The handler returns its Result and the promise settles.
HandlerReturn(i, result) ==
    /\ inv[i].st = "executing"
    /\ inv[i].awaits = <<>>
    /\ inv' = [inv EXCEPT ![i].st = "done", ![i].promise = fetch_promise(result).state]
    /\ UNCHANGED <<storageVars, alarmVars, alarmObjectVars, scheduleVars, blockVars, moreVars>>

NextInvoke ==
    \/ \E i \in Invocations, kind \in {"fetch", "alarm"}, awaits \in HandlerAwaits :
          Invoke(i, kind, awaits)
    \/ \E i \in Invocations : HandlerStart(i)
    \/ \E i \in Invocations : HandlerAwait(i)
    \/ \E i \in Invocations : HandlerResume(i)
    \/ \E i \in Invocations, r \in DOMAIN HandlerResults : HandlerReturn(i, HandlerResults[r])

SpecInvoke == Init /\ [][NextInvoke]_vars

KeyCount == <<4, 16, 22, 15, 21>>               \* "count"
KeyMap == <<14, 2, 17>>                         \* "map"
KeyArray == <<2, 19, 19, 2, 26>>                \* "array"
KeyAnything == <<2, 15, 26, 21, 9, 10, 15, 8>>  \* "anything"
KeyThing == <<21, 9, 10, 15, 8>>                \* "thing"
KeyOther == <<16, 21, 9, 6, 19>>                \* "other"
KeyOne == <<16, 15, 6>>                         \* "one"
KeyTwo == <<21, 24, 16>>                        \* "two"

\* The environments the host passes to a constructor: SOME_SECRET is bound
\* or it is not.
Envs == {[secret |-> TRUE], [secret |-> FALSE]}

UndefinedBinding == WorkerError("UndefinedBinding", "Binding SOME_SECRET is undefined.")

\* Env::secret("SOME_SECRET")
Env_secret(env) == IF env.secret THEN Ok(RUnit) ELSE Err(UndefinedBinding)

\* impl From<DurableObjectState> for State
State_from_first(o) == [inner |-> 1]

State_from(o) == [inner |-> o]

\* State::storage: the storage of the object the host made the handle for.
State_storage(state) == disk[states[state.inner]]

\* Counter::new
Counter_new_initialized(state, env) ==
    [count |-> 0, initialized |-> TRUE, state |-> state, env |-> env]

Counter_new(state, env) ==
    [count |-> 0, initialized |-> FALSE, state |-> state, env |-> env]

\* MyClass::new
MyClass_new(state, env) == [state |-> state, number |-> 0]

\* What a handler leaves: its fields, the storage, and what the caller gets:
\* "count" a response whose body holds the number num, "other" another
\* response, "error" an error (or the response made of it), "panic" nothing,
\* the handler having panicked.  hostok: no host call was rejected.
Outcome(self, s, kind, num, hostok) ==
    [self |-> self, store |-> s, kind |-> kind, num |-> num, hostok |-> hostok]

\* Counter::fetch
Counter_fetch(self, s) ==
    LET got == Storage_get(s, KeyCount, "usize")
        read == IF got.ok THEN got.v.n ELSE 0
        count == (IF self.initialized THEN self.count ELSE read) + 10
        self1 == [self EXCEPT !.initialized = TRUE, !.count = count]
    IN  {LET ok == Storage_put_result(out.promise).ok /\ Env_secret(self.env).ok
         IN  Outcome(self1, out.store, IF ok THEN "count" ELSE "error",
                     IF ok THEN count ELSE 0, out.promise.state = "resolved") :
            out \in HostPut(s, KeyCount, to_value(RUsize(count)))}

\* The values MyClass stores.  The array of pairs is held by the numbers of
\* its pairs, and the String of Stuff by the code of its text.
OneTwo == [k \in {KeyOne, KeyTwo} |-> IF k = KeyOne THEN 1 ELSE 2]
HelloThere == 7
StuffThingOther == RStruct([k \in {KeyThing, KeyOther} |-> IF k = KeyThing THEN HelloThere ELSE 56])

\* The handler of "/storage" as far as it has run: st is "run", "err" (an
\* error left by `?`) or "panic".
Thread(self, s) ==
    [store |-> s, st |-> "run", hostok |-> TRUE, keys |-> <<>>, number |-> self.number]

Then(S, Step(_)) == UNION {IF t.st = "run" THEN Step(t) ELSE {t} : t \in S}

Settled(t, s, res, p) ==
    [t EXCEPT !.store = s, !.st = IF res.ok THEN "run" ELSE "err",
              !.hostok = @ /\ p.state = "resolved"]

\* storage.put(key, value).await?
PutStep(t, key, value) ==
    {Settled(t, out.store, Storage_put_result(out.promise), out.promise) :
        out \in HostPut(t.store, key, to_value(value))}

KeysOf(entries) == [i \in 1..Len(entries) |-> entries[i].k]

\* storage.list().await?, the keys of the Map, and the assert on them
ListStep(t) ==
    LET p == HostList(t.store, NoListOptions)
        list == Storage_list_result(p)
    IN  IF ~list.ok THEN {Settled(t, t.store, list, p)}
        ELSE IF KeysOf(list.v.entries) # <<KeyAnything, KeyArray, KeyMap>>
        THEN {[t EXCEPT !.st = "panic"]}
        ELSE {[t EXCEPT !.keys = KeysOf(list.v.entries)]}

\* Map::get
MapGet(entries, key) ==
    IF \E i \in DOMAIN entries : entries[i].k = key
    THEN entries[CHOOSE i \in DOMAIN entries : entries[i].k = key].val
    ELSE JsUndefined

\* storage.get_multiple(keys).await ... .unwrap(), and the three asserts
GetMultipleStep(t) ==
    LET p == HostGetMultiple(t.store, get_multiple_keys(t.keys))
        vals == Storage_get_multiple_result(p)
        anything == from_value("option", MapGet(vals.v.entries, KeyAnything))
        array == from_value("seq", MapGet(vals.v.entries, KeyArray))
        map == from_value("map", MapGet(vals.v.entries, KeyMap))
    IN  IF ~vals.ok THEN {[t EXCEPT !.st = "panic"]}
        ELSE IF ~anything.ok THEN {[t EXCEPT !.st = "err"]}
        ELSE IF anything.v # RSome(45) THEN {[t EXCEPT !.st = "panic"]}
        ELSE IF ~array.ok THEN {[t EXCEPT !.st = "err"]}
        ELSE IF array.v # RSeq(<<1, 2>>) THEN {[t EXCEPT !.st = "panic"]}
        ELSE IF ~map.ok THEN {[t EXCEPT !.st = "err"]}
        ELSE IF map.v # RMap(OneTwo) THEN {[t EXCEPT !.st = "panic"]}
        ELSE {t}

\* storage.put_multiple(Stuff { .. }).await?
PutMultipleStep(t) ==
    LET calls == put_multiple_calls(to_value(StuffThingOther))
    IN  IF calls = <<>> THEN {[t EXCEPT !.st = "err"]}
        ELSE {Settled(t, out.store, Storage_put_multiple_result(out.promise), out.promise) :
                 out \in HostPutMultiple(t.store, calls[1])}

\* assert!(storage.get::<T>(key).await? == value)
GetAssertStep(t, key, value) ==
    LET got == Storage_get(t.store, key, "i32")
    IN  IF ~got.ok THEN {[t EXCEPT !.st = "err"]}
        ELSE IF got.v.n # value THEN {[t EXCEPT !.st = "panic"]}
        ELSE {t}

\* storage.delete_multiple(vec!["thing", "other"]).await?
DeleteMultipleStep(t) ==
    LET out == HostDeleteMultiple(t.store, <<KeyThing, KeyOther>>)
    IN  {Settled(t, out.store, Storage_delete_multiple_result(out.promise), out.promise)}

\* self.number = storage.get("count").await.unwrap_or(0) + 1
CountStep(t) ==
    LET got == Storage_get(t.store, KeyCount, "usize")
    IN  {[t EXCEPT !.number = (IF got.ok THEN got.v.n ELSE 0) + 1]}

\* storage.delete_all().await?
DeleteAllStep(t) ==
    {Settled(t, out.store, Storage_delete_all_result(out.promise), out.promise) :
        out \in HostDeleteAll(t.store)}

MyClass_storage(self, s) ==
    LET t1 == Then({Thread(self, s)}, LAMBDA t : PutStep(t, KeyMap, RMap(OneTwo)))
        t2 == Then(t1, LAMBDA t : PutStep(t, KeyArray, RSeq(<<1, 2>>)))
        t3 == Then(t2, LAMBDA t : PutStep(t, KeyAnything, RSome(45)))
        t4 == Then(t3, ListStep)
        t5 == Then(t4, GetMultipleStep)
        t6 == Then(t5, PutMultipleStep)
        t7 == Then(t6, LAMBDA t : GetAssertStep(t, KeyThing, HelloThere))
        t8 == Then(t7, LAMBDA t : GetAssertStep(t, KeyOther, 56))
        t9 == Then(t8, DeleteMultipleStep)
        t10 == Then(t9, CountStep)
        t11 == Then(t10, DeleteAllStep)
    IN  Then(t11, LAMBDA t : PutStep(t, KeyCount, RUsize(t.number)))

\* MyClass::fetch.  An error of the handler becomes the response 500, and
\* "/transaction" is answered 501, "transactional storage API is still
\* unstable", with nothing read or written.  What
\* the host keeps of the writes made before a panic is not fixed: all of
\* them or none.
MyClass_fetch(self, s, path) ==
    IF path = "/storage"
    THEN UNION {LET self1 == [self EXCEPT !.number = t.number]
                IN  CASE t.st = "run" -> {Outcome(self1, t.store, "count", t.number, t.hostok)}
                      [] t.st = "err" -> {Outcome(self1, t.store, "error", 0, t.hostok)}
                      [] t.st = "panic" -> {Outcome(self1, t.store, "panic", 0, t.hostok),
                                            Outcome(self1, s, "panic", 0, t.hostok)} :
                   t \in MyClass_storage(self, s)}
    ELSE IF path = "/transaction"
    THEN {Outcome(self, s, "unstable", 0, TRUE)}
    ELSE {Outcome(self, s, "other", 0, TRUE)}

\* The paths requested: main asks the Counter for "/" only.
Paths(o) == IF o = "Counter" THEN {"/"} ELSE {"/hello", "/storage", "/transaction"}

\* The constructor and the fetch handler of an object.
New(o, state, env) ==
    IF o = "Counter" THEN Counter_new(state, env) ELSE MyClass_new(state, env)

Handler(o, self, s, path) ==
    IF o = "Counter" THEN Counter_fetch(self, s) ELSE MyClass_fetch(self, s, path)

\* The host has no live instance of the object.
Unloaded(o) == objs[o] = {}

\* A request is sent to the stub of the object; the requests are numbered in
\* the order they are sent.
Send(f, o, path) ==
    /\ fetches[f].st = "none"
    /\ \A g \in Fetches : g < f => fetches[g].st # "none"
    /\ fetches' = [fetches EXCEPT ![f].st = "sent", ![f].object = o, ![f].path = path,
                                  ![f].after = {g \in Fetches : fetches[g].st = "ended"}]
    /\ UNCHANGED <<objs, disk, states, loads, news, atEvict>>
    /\ UNCHANGED <<storageVars, alarmVars, alarmObjectVars, scheduleVars, blockVars,
                   invokeVars, namespaceVars, lateVars>>

\* The host loads the object for a request that waits for it: it makes a
\* DurableObjectState of the object and an instance to be constructed with it.
HostLoad(o, env) ==
    /\ Unloaded(o)
    /\ \E f \in Fetches : fetches[f].st = "sent" /\ fetches[f].object = o
    /\ states' = Append(states, o)
    /\ loads' = [loads EXCEPT ![o] = @ + 1]
    /\ objs' = [objs EXCEPT ![o] = @ \cup {[phase |-> "created", handle |-> Len(states) + 1,
                                            env |-> env, handled |-> 0, self |-> <<>>]}]
    /\ UNCHANGED <<disk, news, atEvict, fetches>>
    /\ UNCHANGED <<storageVars, alarmVars, alarmObjectVars, scheduleVars, blockVars,
                   invokeVars, namespaceVars, lateVars>>

\* The constructor of the glue: State::from(state), Env::from(env), then the
\* body of the user's `new`.
Construct(o) ==
    /\ \E i \in objs[o] :
          /\ i.phase = "created"
          /\ objs' = [objs EXCEPT ![o] = (@ \ {i}) \cup
                        {[i EXCEPT !.phase = "active",
                                   !.self = New(o, State_from(i.handle), i.env)]}]
    /\ news' = [news EXCEPT ![o] = @ + 1]
    /\ UNCHANGED <<disk, states, loads, atEvict, fetches>>
    /\ UNCHANGED <<storageVars, alarmVars, alarmObjectVars, scheduleVars, blockVars,
                   invokeVars, namespaceVars, lateVars>>

\* The host gives a waiting request to the instance and the handler runs to
\* its result; the host gives the instance no other event meanwhile.
Fetch(f) ==
    /\ fetches[f].st = "sent"
    /\ LET o == fetches[f].object
       IN  \E i \in objs[o] :
              /\ i.phase = "active"
              /\ \E out \in Handler(o, i.self, State_storage(i.self.state), fetches[f].path) :
                    /\ disk' = [disk EXCEPT ![states[i.self.state.inner]] = out.store]
                    /\ objs' = [objs EXCEPT ![o] = (@ \ {i}) \cup
                                  {[i EXCEPT !.self = out.self, !.handled = @ + 1]}]
                    /\ fetches' = [fetches EXCEPT ![f].st = "ended",
                                      ![f].first = i.handled = 0,
                                      ![f].nth = 1 + Cardinality({g \in Fetches :
                                                        /\ fetches[g].st = "ended"
                                                        /\ fetches[g].object = o}),
                                      ![f].load = loads[o],
                                      ![f].evicted = atEvict[o],
                                      ![f].kind = out.kind,
                                      ![f].num = out.num,
                                      ![f].hostok = out.hostok]
    /\ UNCHANGED <<states, loads, news, atEvict>>
    /\ UNCHANGED <<storageVars, alarmVars, alarmObjectVars, scheduleVars, blockVars,
                   invokeVars, namespaceVars, lateVars>>

\* The host evicts an instance that has no request to handle: its fields are
\* gone, the storage of the object stays.
Evict(o) ==
    /\ \A f \in Fetches : ~(fetches[f].st = "sent" /\ fetches[f].object = o)
    /\ \E i \in objs[o] :
          /\ i.phase = "active"
          /\ objs' = [objs EXCEPT ![o] = @ \ {i}]
    /\ atEvict' = [atEvict EXCEPT ![o] = disk[o]]
    /\ UNCHANGED <<disk, states, loads, news, fetches>>
    /\ UNCHANGED <<storageVars, alarmVars, alarmObjectVars, scheduleVars, blockVars,
                   invokeVars, namespaceVars, lateVars>>

NextInstance ==
    \/ \E f \in Fetches, o \in Objects : \E path \in Paths(o) : Send(f, o, path)
    \/ \E o \in Objects, env \in Envs : HostLoad(o, env)
    \/ \E o \in Objects : Construct(o)
    \/ \E f \in Fetches : Fetch(f)
    \/ \E o \in Objects : Evict(o)

SpecInstance == Init /\ [][NextInstance]_vars

\* C16: an object has at most one live instance; the constructor has run
\* once for every load of the object, on the State the host made at that
\* load, and a handler runs only on an instance so constructed.
C16_OneInstanceConstructedOnce ==
    /\ \A o \in Objects :
          /\ Cardinality(objs[o]) <= 1
          /\ news[o] = loads[o] - Cardinality({i \in objs[o] : i.phase = "created"})
          /\ \A i \in objs[o] :
                i.phase = "active"
                    => /\ i.self.state.inner = i.handle
                       /\ states[i.handle] = o
                       /\ \A p \in Objects : \A j \in objs[p] : j.handle = i.handle => j = i
    /\ \A f \in Fetches :
          fetches[f].st = "ended" => fetches[f].load >= 1

\* Witness: a request was handled by the instance of the second load of its object.
C16_Witness ==
    \E f \in Fetches :
        /\ fetches[f].st = "ended"
        /\ fetches[f].load = 2
        /\ news[fetches[f].object] = 2

\* The count an object's storage holds, 0 when it holds none.
CountIn(s) == IF KeyCount \in DOMAIN s THEN s[KeyCount].n ELSE 0

\* C17: while an object is unloaded its storage is as it was at eviction; a
\* reloaded instance that has handled no request has the fields the
\* constructor sets; and the first fetch a reloaded Counter answers returns
\* the count persisted at eviction plus 10.
C17_ReloadKeepsStorage ==
    /\ \A o \in Objects :
          /\ (Unloaded(o) /\ loads[o] >= 1) => disk[o] = atEvict[o]
          /\ \A i \in objs[o] :
                (i.phase = "active" /\ i.handled = 0)
                    => IF o = "Counter"
                       THEN i.self.count = 0 /\ ~i.self.initialized
                       ELSE i.self.number = 0
    /\ \A f \in Fetches :
          (/\ fetches[f].st = "ended"
           /\ fetches[f].object = "Counter"
           /\ fetches[f].first
           /\ fetches[f].load >= 2
           /\ fetches[f].kind = "count")
              => fetches[f].num = CountIn(fetches[f].evicted) + 10

\* Witness: the first fetch of a reloaded Counter returned 20, the storage
\* having held 10 at eviction.
C17_Witness ==
    \E f \in Fetches :
        /\ fetches[f].st = "ended"
        /\ fetches[f].object = "Counter"
        /\ fetches[f].first
        /\ fetches[f].load = 2
        /\ CountIn(fetches[f].evicted) = 10
        /\ fetches[f].kind = "count"
        /\ fetches[f].num = 20

\* C18: of two fetches of the same object, the second sent after the first
\* had returned its count and no host call of the second rejected: a count
\* the Counter returns to the second is greater than the first's, and the
\* "/storage" of MyClass returns to the next fetch the first's count plus 1.
C18_CountIncreases ==
    \A f, g \in Fetches :
        (/\ fetches[f].st = "ended" /\ fetches[g].st = "ended"
         /\ fetches[f].object = fetches[g].object
         /\ f \in fetches[g].after
         /\ fetches[f].kind = "count"
         /\ fetches[g].hostok)
            => IF fetches[g].object = "Counter"
               THEN fetches[g].kind = "count" => fetches[g].num > fetches[f].num
               ELSE (fetches[g].path = "/storage" /\ fetches[g].nth = fetches[f].nth + 1)
                       => /\ fetches[g].kind = "count"
                          /\ fetches[g].num = fetches[f].num + 1

\* Witness: the first "/storage" fetch of MyClass returned 1, and the next
\* one, sent after it, panicked.
C18_Witness ==
    \E f, g \in Fetches :
        /\ fetches[f].st = "ended" /\ fetches[g].st = "ended"
        /\ fetches[f].object = "MyClass" /\ fetches[g].object = "MyClass"
        /\ f \in fetches[g].after
        /\ fetches[f].kind = "count" /\ fetches[f].num = 1
        /\ fetches[g].path = "/storage" /\ fetches[g].nth = fetches[f].nth + 1
        /\ fetches[g].kind = "panic"

(***************************************************************************)
(* ObjectNamespace: the ids of a namespace.  The host's namespace object   *)
(* derives an id from a name, makes a new unique id, and parses the hex    *)
(* string of an id; ObjectNamespace wraps each call.                       *)
(***************************************************************************)
Names == {"A", "B"}

\* An id of the host: of its namespace, derived from a name or the n-th
\* unique id of the namespace.
NamedId(ns, name) == [ns |-> ns, kind |-> "name", name |-> name, n |-> 0]
UniqueIdOf(ns, n) == [ns |-> ns, kind |-> "unique", name |-> "", n |-> n]

\* The hex string of an id, by its digits: the namespace, the kind, and the
\* name or the serial number.
HostIdToString(id) ==
    <<IF id.ns = "COUNTER" THEN 12 ELSE 13,
      IF id.kind = "name" THEN 0 ELSE 1,
      IF id.kind = "name" THEN (IF id.name = "A" THEN 10 ELSE 11) ELSE id.n>>

\* idFromName(name): the same id for the same name.
HostIdFromName(ns, name) == NamedId(ns, name)

\* newUniqueId(): an id the namespace has not produced.
HostNewUniqueId(ns, made) ==
    UniqueIdOf(ns, 1 + Cardinality({id \in made : id.kind = "unique"}))

\* What a call of the host's namespace object gives: an id, or it throws.
Returned(id) == [thrown |-> FALSE, id |-> id, msg |-> ""]
Thrown(msg) == [thrown |-> TRUE, id |-> NamedId("", ""), msg |-> msg]

\* idFromString(hex): the id the string is of; throws for a string that is
\* not of an id produced by idFromName or newUniqueId of this namespace.
HostIdFromString(ns, hex, made) ==
    IF \E id \in made : HostIdToString(id) = hex
    THEN Returned(CHOOSE id \in made : HostIdToString(id) = hex)
    ELSE Thrown("TypeError: Invalid Durable Object ID.")

\* .map_err(WorkerError::from_js_err).map(|id| ObjectId { inner, namespace: Some(self) })
NoObjectId == [inner |-> NamedId("", ""), namespace |-> <<>>]

ObjectId_or_binding_error(ns, r) ==
    IF r.thrown
    THEN [ok |-> FALSE, id |-> NoObjectId, err |-> WorkerError("InvalidBinding", r.msg)]
    ELSE [ok |-> TRUE, id |-> [inner |-> r.id, namespace |-> <<ns>>], err |-> NoError]

ObjectId_or_error(ns, r) ==
    IF r.thrown
    THEN [ok |-> FALSE, id |-> NoObjectId, err |-> from_js_err(r.msg)]
    ELSE [ok |-> TRUE, id |-> [inner |-> r.id, namespace |-> <<ns>>], err |-> NoError]

\* ObjectNamespace::id_from_name
ObjectNamespace_id_from_name(ns, name) == ObjectId_or_error(ns, Returned(HostIdFromName(ns, name)))

\* ObjectNamespace::unique_id
ObjectNamespace_unique_id_from_name(ns, made) ==
    ObjectId_or_error(ns, Returned(HostIdFromName(ns, "A")))

ObjectNamespace_unique_id(ns, made) ==
    ObjectId_or_error(ns, Returned(HostNewUniqueId(ns, made)))

\* ObjectNamespace::id_from_string
ObjectNamespace_id_from_string(ns, hex, made) ==
    ObjectId_or_error(ns, HostIdFromString(ns, hex, made))

\* ObjectId::to_string
ObjectId_to_string(id) == HostIdToString(id.inner)

\* The strings given to id_from_string: malformed ones, and the strings of
\* the ids the namespaces can produce here.
Malformed == {<<>>, <<12, 0>>, <<12, 2, 10>>}

HexStrings ==
    Malformed
        \cup {HostIdToString(NamedId(ns, name)) : ns \in Namespaces, name \in Names}
        \cup {HostIdToString(UniqueIdOf(ns, n)) : ns \in Namespaces, n \in 1..MaxIdCalls}

\* The strings of the ids a namespace has produced.
Produced(ns) == {HostIdToString(id) : id \in ids[ns]}

Called(op, ns, name, hex, res) ==
    [op |-> op, ns |-> ns, name |-> name, hex |-> hex, res |-> res, produced |-> Produced(ns)]

IdFromName(ns, name) ==
    /\ Len(nslog) < MaxIdCalls
    /\ LET res == ObjectNamespace_id_from_name(ns, name)
       IN  /\ ids' = [ids EXCEPT ![ns] = @ \cup {HostIdFromName(ns, name)}]
           /\ nslog' = Append(nslog, Called("id_from_name", ns, name, <<>>, res))
    /\ UNCHANGED <<storageVars, alarmVars, alarmObjectVars, scheduleVars, blockVars,
                   invokeVars, instanceVars, lateVars>>

UniqueId(ns) ==
    /\ Len(nslog) < MaxIdCalls
    /\ LET res == ObjectNamespace_unique_id(ns, ids[ns])
       IN  /\ ids' = [ids EXCEPT ![ns] = @ \cup {res.id.inner}]
           /\ nslog' = Append(nslog, Called("unique_id", ns, "", <<>>, res))
    /\ UNCHANGED <<storageVars, alarmVars, alarmObjectVars, scheduleVars, blockVars,
                   invokeVars, instanceVars, lateVars>>

IdFromString(ns, hex) ==
    /\ Len(nslog) < MaxIdCalls
    /\ LET res == ObjectNamespace_id_from_string(ns, hex, ids[ns])
       IN  nslog' = Append(nslog, Called("id_from_string", ns, "", hex, res))
    /\ UNCHANGED ids
    /\ UNCHANGED <<storageVars, alarmVars, alarmObjectVars, scheduleVars, blockVars,
                   invokeVars, instanceVars, lateVars>>

NextNamespace ==
    \/ \E ns \in Namespaces, name \in Names : IdFromName(ns, name)
    \/ \E ns \in Namespaces : UniqueId(ns)
    \/ \E ns \in Namespaces, hex \in HexStrings : IdFromString(ns, hex)

SpecNamespace == Init /\ [][NextNamespace]_vars

\* C19: in one namespace, two calls of id_from_name with the same name
\* return equal ids, and the id unique_id returns equals no id the namespace
\* returned before.
C19_NamedIdsEqualUniqueIdsNew ==
    \A i, j \in DOMAIN nslog :
        (i < j /\ nslog[i].ns = nslog[j].ns /\ nslog[i].res.ok /\ nslog[j].res.ok)
            => /\ (/\ nslog[i].op = "id_from_name" /\ nslog[j].op = "id_from_name"
                   /\ nslog[i].name = nslog[j].name)
                      => /\ nslog[i].res.id.inner = nslog[j].res.id.inner
                         /\ ObjectId_to_string(nslog[i].res.id)
                               = ObjectId_to_string(nslog[j].res.id)
               /\ nslog[j].op = "unique_id"
                      => /\ nslog[i].res.id.inner # nslog[j].res.id.inner
                         /\ ObjectId_to_string(nslog[i].res.id)
                               # ObjectId_to_string(nslog[j].res.id)

\* Witness: id_from_name twice with one name and then unique_id, all in one
\* namespace.
C19_Witness ==
    /\ Len(nslog) = 3
    /\ nslog[1].op = "id_from_name" /\ nslog[2].op = "id_from_name"
    /\ nslog[1].ns = nslog[2].ns /\ nslog[1].name = nslog[2].name
    /\ nslog[3].op = "unique_id" /\ nslog[3].ns = nslog[1].ns
    /\ nslog[3].res.ok

\* Whether id_from_string did as it should, its error being of one of kinds.
IdFromStringSettled(kinds) ==
    \A i \in DOMAIN nslog :
        nslog[i].op = "id_from_string"
            => /\ nslog[i].res.ok <=> nslog[i].hex \in nslog[i].produced
               /\ nslog[i].res.ok => ObjectId_to_string(nslog[i].res.id) = nslog[i].hex
               /\ ~nslog[i].res.ok
                     => /\ nslog[i].res.err.kind \in kinds
                        /\ nslog[i].res.id = NoObjectId

\* C20 as stated: id_from_string succeeds exactly for the string of an id the
\* same namespace produced before, and the id it yields has that string;
\* for any other string it returns a binding error and no id.
C20_IdFromStringBindingError ==
    IdFromStringSettled({"InvalidBinding", "UndefinedBinding", "BindingCast"})

\* C20, amended: the same, the error being the JsError made of what the
\* host threw.
C20_IdFromStringJsError == IdFromStringSettled({"JsError"})

\* Witness: a string of an id of the other namespace was refused, and the
\* string of an id of this namespace gave the id back.
C20_Witness ==
    \E i, j \in DOMAIN nslog :
        /\ nslog[i].op = "id_from_string" /\ nslog[j].op = "id_from_string"
        /\ ~nslog[i].res.ok
        /\ \E ns \in Namespaces : ns # nslog[i].ns /\ nslog[i].hex \in Produced(ns)
        /\ nslog[j].res.ok

(***************************************************************************)
(* Stubs.  An ObjectId made by a namespace holds the namespace; the one    *)
(* State::id returns holds none.                                           *)
(***************************************************************************)
\* State::id: the id of the object the state is of, with no namespace.
State_id_with_namespace(id) == [inner |-> id, namespace |-> <<id.ns>>]

State_id(id) == [inner |-> id, namespace |-> <<>>]

\* get(id) of the host's namespace object: a stub of the object of that id.
HostStub(ns, id) ==
    IF id.ns = ns THEN [thrown |-> FALSE, target |-> <<id>>, msg |-> ""]
    ELSE [thrown |-> TRUE, target |-> <<>>, msg |-> "TypeError: the id is of another namespace."]

DurableObjectStub ==
    WorkerError("DurableObjectStub", "Cannot get stub from within a Durable Object")

\* ObjectId::get_stub: the Result, and the number of calls made on the host.
ObjectId_get_stub(oid) ==
    IF oid.namespace = <<>>
    THEN [ok |-> FALSE, target |-> <<>>, err |-> DurableObjectStub, hostCalls |-> 0]
    ELSE LET data == HostStub(oid.namespace[1], oid.inner)
         IN  IF data.thrown
             THEN [ok |-> FALSE, target |-> <<>>, err |-> from_js_err(data.msg), hostCalls |-> 1]
             ELSE [ok |-> TRUE, target |-> data.target, err |-> NoError, hostCalls |-> 1]

\* The ObjectIds the namespaces have returned.
FromNamespace == {nslog[i].res.id : i \in {j \in DOMAIN nslog : nslog[j].res.ok}}

\* An object that runs asks its State for its id.
StateId(id) ==
    /\ own' = own \cup {State_id(id)}
    /\ own' # own
    /\ UNCHANGED <<stub, earlyVars, sends, bare, glue, envcalls, sock, race>>

GetStub(oid) ==
    /\ stub' = [op |-> "get_stub", id |-> oid, detached |-> oid \in own,
                res |-> ObjectId_get_stub(oid)]
    /\ stub' # stub
    /\ UNCHANGED <<own, earlyVars, sends, bare, glue, envcalls, sock, race>>

\* The ids are made by the namespaces; id_from_string is given the strings
\* of ids made before.
NextStub ==
    \/ \E ns \in Namespaces, name \in Names : IdFromName(ns, name)
    \/ \E ns \in Namespaces : UniqueId(ns)
    \/ \E ns \in Namespaces : \E hex \in Produced(ns) : IdFromString(ns, hex)
    \/ \E ns \in Namespaces : \E id \in ids[ns] : StateId(id)
    \/ \E oid \in FromNamespace \cup own : GetStub(oid)

SpecStub == Init /\ [][NextStub]_vars

\* C21: get_stub on an ObjectId obtained from State::id fails with
\* DurableObjectStub and makes no call on the host; get_stub on an ObjectId a
\* namespace returned gives a Stub of the object of exactly that id.
C21_DetachedIdHasNoStub ==
    stub # NoCall
        => IF stub.detached
           THEN /\ ~stub.res.ok
                /\ stub.res.err = DurableObjectStub
                /\ stub.res.target = <<>>
                /\ stub.res.hostCalls = 0
           ELSE /\ stub.id \in FromNamespace
                /\ stub.res.ok
                /\ stub.res.target = <<stub.id.inner>>

\* Witness: get_stub was refused for the id State::id gave, the same object
\* being reachable through the id its namespace gave.
C21_Witness ==
    /\ stub # NoCall
    /\ stub.detached
    /\ ~stub.res.ok
    /\ \E oid \in FromNamespace : oid.inner = stub.id.inner /\ ObjectId_get_stub(oid).ok

\* Witness: an id returned by id_from_string gave a stub.
C21_WitnessFromString ==
    /\ stub # NoCall
    /\ ~stub.detached
    /\ stub.res.ok
    /\ \E i \in DOMAIN nslog : nslog[i].op = "id_from_string" /\ nslog[i].res.id = stub.id

(***************************************************************************)
(* Stub::fetch_with_str / fetch_with_request.  The host's stub dispatches  *)
(* the request to the object's fetch glue, whose promise settles the       *)
(* stub's promise; Stub converts the settled promise.                      *)
(***************************************************************************)
MaxSends == 2       \* calls made on the stub

\* Request targets: full URLs and bare paths.
Urls == {"https://fake-host/", "https://fake-host/storage", "hello", "storage"}

Absolute(url) == url \in {"https://fake-host/", "https://fake-host/storage"}

\* What the object's handler returns for a request given to it.
HandlerReturns ==
    {Responded("1"), Responded("Hello!"), Failed(JsError("boom")), Failed(MustPassInStructType)}

\* A web Response, and a promise settled with it or rejected with a string.
WebResponse(status, body) ==
    [t |-> "Response", status |-> status, body |-> body, headers |-> {}]

Fulfilled(v) == [state |-> "resolved", v |-> v, msg |-> ""]
Refused(msg) == [state |-> "rejected", v |-> WebResponse(0, ""), msg |-> msg]

glue_fetch_promise_swallowed(result) == Fulfilled(WebResponse(200, result.body))

\* The promise _fetch returns: the Response of Ok, or JsValue::from(error),
\* the string of its Display.
glue_fetch_promise(result) ==
    IF result.ok THEN Fulfilled(WebResponse(200, result.body))
    ELSE Refused(WorkerError_to_string(result.err))

\* fetch of the host's stub: a target that is no full URL is refused and the
\* object is given nothing; else the object's glue is called and its promise
\* is the stub's.
HostStubFetch(url, result) ==
    IF Absolute(url)
    THEN [promise |-> glue_fetch_promise(result), invoked |-> TRUE]
    ELSE [promise |-> Refused("TypeError: Invalid URL: " \o url), invoked |-> FALSE]

\* fut.await.map_err(from_promise_err)?.dyn_into().map_err(from_cast_err)?
Stub_fetch_result_invalid_request(p) ==
    IF p.state = "rejected"
    THEN [ok |-> FALSE, response |-> WebResponse(0, ""), err |-> WorkerError("InvalidRequest", p.msg)]
    ELSE [ok |-> TRUE, response |-> p.v, err |-> NoError]

Stub_fetch_result(p) ==
    IF p.state = "rejected"
    THEN [ok |-> FALSE, response |-> WebResponse(0, ""), err |-> from_promise_err(p.msg)]
    ELSE IF p.v.t # "Response"
    THEN [ok |-> FALSE, response |-> WebResponse(0, ""), err |-> from_cast_err]
    ELSE [ok |-> TRUE, response |-> p.v, err |-> NoError]

Sent(op, url, result, out) ==
    [op |-> op, url |-> url, invoked |-> out.invoked,
     returned |-> IF out.invoked THEN <<result>> ELSE <<>>,
     res |-> Stub_fetch_result(out.promise)]

StubFetchWithStr(url, result) ==
    /\ Len(sends) < MaxSends
    /\ sends' = Append(sends, Sent("fetch_with_str", url, result, HostStubFetch(url, result)))
    /\ UNCHANGED <<earlyVars, stubVars, bare, glue, envcalls, sock, race>>

StubFetchWithRequest(url, result) ==
    /\ Len(sends) < MaxSends
    /\ sends' = Append(sends, Sent("fetch_with_request", url, result,
                                   HostStubFetch(url, result)))
    /\ UNCHANGED <<earlyVars, stubVars, bare, glue, envcalls, sock, race>>

NextSends ==
    \/ \E url \in Urls, result \in HandlerReturns : StubFetchWithStr(url, result)
    \/ \E url \in Urls, result \in HandlerReturns : StubFetchWithRequest(url, result)

SpecSends == Init /\ [][NextSends]_vars

\* Whether every call with a bare path failed with an error of one of
\* kinds, the object's handler not having been invoked.
BarePathRefused(kinds) ==
    \A i \in DOMAIN sends :
        ~Absolute(sends[i].url)
            => /\ ~sends[i].res.ok
               /\ sends[i].res.err.kind \in kinds
               /\ ~sends[i].invoked

MaxFired == 3        \* alarms fired on the objects
MaxBareCount == 20   \* the largest count of the Counter

\* The methods of the impl block the macro is given.
ImplMethods(c) == IF c = "AlarmObject" THEN {"new", "fetch", "alarm"} ELSE {"new", "fetch"}

\* expand_macro: the methods the class exports, and whether the trait's alarm
\* is overridden (alarm_tokens).
expand_macro(methods) ==
    [exports |-> {"constructor", "fetch"} \cup (IF "alarm" \in methods THEN {"alarm"} ELSE {}),
     has_alarm |-> "alarm" \in methods]

\* What an alarm invocation did: how it ended, whether code of the author ran,
\* and the storage it left.
AlarmOutcome(outcome, msg, ran, after) ==
    [outcome |-> outcome, msg |-> msg, ran |-> ran, after |-> after]

\* _alarm_raw of the AlarmObject: put("alarmed", true).
AlarmObject_alarm_raw(n) == AlarmOutcome("ok", "ALARMED", TRUE, 1)

\* DurableObject::alarm, the default of the trait.
DurableObject_alarm_silent(n) == AlarmOutcome("ok", "", FALSE, n)

DurableObject_alarm(n) ==
    AlarmOutcome("Unimplemented", "not implemented: alarm() handler not implemented", FALSE, n)

\* The alarm method of the trait, for a class.
Trait_alarm(c, n) ==
    IF expand_macro(ImplMethods(c)).has_alarm THEN AlarmObject_alarm_raw(n)
    ELSE DurableObject_alarm(n)

\* The host fires the alarm: it calls the method the class exports, and fails
\* the invocation if there is none.
HostAlarm(c, n) ==
    IF "alarm" \in expand_macro(ImplMethods(c)).exports THEN AlarmObject_alarm_raw(n)
    ELSE AlarmOutcome("Unimplemented", "the class has no alarm handler", FALSE, n)

FiredAlarm(c, via, out) ==
    [class |-> c, via |-> via, before |-> bare.store[c], outcome |-> out.outcome,
     msg |-> out.msg, ran |-> out.ran, after |-> out.after]

\* A fetch of the Counter puts its count, ten greater.  (A fetch of the
\* AlarmObject writes nothing.)
BareFetch(c) ==
    /\ c = "Counter"
    /\ bare.store[c] + 10 <= MaxBareCount
    /\ bare' = [bare EXCEPT !.store[c] = @ + 10]
    /\ UNCHANGED <<earlyVars, stubVars, sends, glue, envcalls, sock, race>>

\* The host fires the alarm of the object.
HostFireAlarm(c) ==
    /\ Len(bare.fired) < MaxFired
    /\ LET out == HostAlarm(c, bare.store[c])
       IN  bare' = [store |-> [bare.store EXCEPT ![c] = out.after],
                    fired |-> Append(bare.fired, FiredAlarm(c, "host", out))]
    /\ UNCHANGED <<earlyVars, stubVars, sends, glue, envcalls, sock, race>>

\* Code calls the alarm method of the trait on the object.
CallTraitAlarm(c) ==
    /\ Len(bare.fired) < MaxFired
    /\ LET out == Trait_alarm(c, bare.store[c])
       IN  bare' = [store |-> [bare.store EXCEPT ![c] = out.after],
                    fired |-> Append(bare.fired, FiredAlarm(c, "trait", out))]
    /\ UNCHANGED <<earlyVars, stubVars, sends, glue, envcalls, sock, race>>

NextBare ==
    \/ BareFetch("Counter")
    \/ \E c \in BareClasses : HostFireAlarm(c)
    \/ \E c \in BareClasses : CallTraitAlarm(c)

SpecBare == Init /\ [][NextBare]_vars

\* C23: an alarm fired on an object whose author wrote no alarm handler
\* fails as unimplemented, runs no code of the author and leaves the
\* storage of the object as it was.
C23_NoAlarmHandlerUnimplemented ==
    \A i \in DOMAIN bare.fired :
        LET a == bare.fired[i]
        IN  "alarm" \notin ImplMethods(a.class)
               => /\ a.outcome = "Unimplemented"
                  /\ ~a.ran
                  /\ a.after = a.before

\* Witness: the host fired the alarm of a Counter that holds a count, and
\* the alarm of the trait was called on it; the count is still there.
C23_Witness ==
    /\ Len(bare.fired) >= 2
    /\ bare.fired[1].class = "Counter" /\ bare.fired[1].via = "host"
    /\ bare.fired[1].before = 10 /\ bare.fired[1].outcome = "Unimplemented"
    /\ bare.fired[2].class = "Counter" /\ bare.fired[2].via = "trait"
    /\ bare.store["Counter"] = 10

\* With a handler the alarm runs the author's code and writes the storage.
C23_WitnessHandlerRuns ==
    \E i \in DOMAIN bare.fired :
        /\ bare.fired[i].class = "AlarmObject" /\ bare.fired[i].ran
        /\ bare.fired[i].before = 0 /\ bare.fired[i].after = 1

(***************************************************************************)
(* An error returned by the fetch handler of an object: what the glue      *)
(* makes of it, what the caller's stub returns, and what becomes of the    *)
(* instance.                                                               *)
(***************************************************************************)
\* The Result Counter::fetch returned in an ended request: the error of the
\* put, or of env.secret("SOME_SECRET"), or the response.
Counter_fetch_returned(r) ==
    IF r.kind = "count" THEN Responded("count")
    ELSE IF r.hostok THEN Failed(UndefinedBinding)
    ELSE Failed(JsError("put failed"))

\* What the caller's stub.fetch_with_str("https://fake-host/") returned for
\* an ended request of the Counter.
CallerResult(f) ==
    Stub_fetch_result(
        HostStubFetch("https://fake-host/", Counter_fetch_returned(fetches[f])).promise)

FailedFetch(f) ==
    /\ fetches[f].st = "ended"
    /\ fetches[f].object = "Counter"
    /\ fetches[f].kind = "error"

\* The caller of a request whose handler returned an error got an error;
\* the caller of any other got the response.
CallerSeesError ==
    \A f \in Fetches :
        (fetches[f].st = "ended" /\ fetches[f].object = "Counter")
            => /\ FailedFetch(f) => /\ ~CallerResult(f).ok
                                    /\ CallerResult(f).err.kind = "AwaitPromise"
               /\ ~FailedFetch(f) => CallerResult(f).ok

\* The step in which a handler returns an error leaves the instance active,
\* with the State it was constructed with, not loaded or constructed anew,
\* and leaves the storage of the object as the handler wrote it and that of
\* every other object as it was.
ErrorKeepsInstance ==
    \A f \in Fetches :
        (fetches[f].st = "sent" /\ FailedFetch(f)')
            => /\ \E i \in objs["Counter"], j \in objs'["Counter"] :
                     /\ i.phase = "active" /\ j.phase = "active"
                     /\ objs'["Counter"] = {j}
                     /\ j.handle = i.handle
                     /\ j.self.state = i.self.state
                     /\ j.self.env = i.self.env
                     /\ j.handled = i.handled + 1
                     /\ fetches'[f].hostok => CountIn(disk'["Counter"]) = j.self.count
               /\ loads' = loads /\ news' = news /\ states' = states
               /\ \A o \in Objects \ {"Counter"} : objs'[o] = objs[o] /\ disk'[o] = disk[o]
               /\ DOMAIN disk["Counter"] \subseteq DOMAIN disk'["Counter"]

\* A request handled after one that failed, by the same load of the object,
\* is handled by the instance that failed, and the count goes on from there.
LaterFetchHandled ==
    \A f \in Fetches :
        (/\ fetches[f].st = "sent"
         /\ fetches'[f].st = "ended"
         /\ fetches[f].object = "Counter"
         /\ \E g \in Fetches : FailedFetch(g) /\ fetches[g].load = loads["Counter"])
            => /\ ~fetches'[f].first
               /\ fetches'[f].load = loads["Counter"]
               /\ fetches'[f].hostok
                     => \E i \in objs["Counter"] :
                           CountIn(disk'["Counter"]) = i.self.count + 10

\* C24: when the fetch handler of an object returns an error, the caller's
\* stub fetch returns an error and nothing else fails: the instance stays
\* active with its State and storage, and later requests to the object are
\* handled by it as before.
C24_HandlerErrorFailsOneInvocation ==
    /\ [](CallerSeesError)
    /\ [][ErrorKeepsInstance /\ LaterFetchHandled]_vars

\* Witness: a Counter request failed for the missing secret after its put,
\* and a later request was handled by the same instance, the storage
\* holding both increments.
C24_Witness ==
    \E f, g \in Fetches :
        /\ FailedFetch(f) /\ fetches[f].hostok /\ fetches[f].first
        /\ fetches[g].st = "ended" /\ fetches[g].object = "Counter"
        /\ f \in fetches[g].after
        /\ fetches[g].load = fetches[f].load
        /\ ~fetches[g].first
        /\ CountIn(disk["Counter"]) = 20
        /\ \E i \in objs["Counter"] : i.phase = "active" /\ i.handled = 2

(***************************************************************************)
(* #[event(fetch)]: the wrapper `fetch` the macro makes around the         *)
(* attributed function, with and without respond_with_errors.              *)
(***************************************************************************)
MaxRuns == 2        \* runs of the wrapper

\* What the attributed function returns: a Response or an error.
\* A header is held by its name and by whether its value is text
\* (HeaderValue::to_str succeeds) or other bytes.
TextHeader == [name |-> "content-type", text |-> TRUE]
BytesHeader == [name |-> "x-raw", text |-> FALSE]

EventOk(status, body, headers) ==
    [ok |-> TRUE, status |-> status, body |-> body, headers |-> headers, err |-> NoError]
EventErr(e) == [ok |-> FALSE, status |-> 0, body |-> "", headers |-> {}, err |-> e]

\* into_web_sys_response: the status, the headers whose value is text, and
\* the body.
into_web_sys_response(res) ==
    [t |-> "Response", status |-> res.status, body |-> res.body,
     headers |-> {h \in res.headers : h.text}]

EventReturns ==
    {EventOk(200, "Hello!", {TextHeader}), EventOk(404, "Not Found", {}),
     EventOk(500, "oops", {TextHeader, BytesHeader}),
     EventErr(JsError("boom")), EventErr(MustPassInStructType), EventErr(UndefinedBinding)}

\* The attributes of #[event(...)]: fetch, with or without respond_with_errors.
expand_macro_attrs(attrs) == [respond_with_errors |-> "respond_with_errors" \in attrs]

\* How a run of the wrapper ends: with a web Response, or in a panic.
Returns(response) == [kind |-> "response", response |-> response, msg |-> ""]
Panics(msg) == [kind |-> "panic", response |-> WebResponse(0, ""), msg |-> msg]

error_handling_swallowed(respond_with_errors, e) == Returns(WebResponse(200, ""))

\* error_handling: the 500 response of the error's text, or panic!("{}", e).
error_handling(respond_with_errors, e) ==
    IF respond_with_errors THEN Returns(WebResponse(500, WorkerError_to_string(e)))
    ELSE Panics(WorkerError_to_string(e))

\* The wrapper: the lines written to the console and the end of the run.
wrapper_fn(respond_with_errors, result) ==
    IF result.ok
    THEN [console |-> <<>>, out |-> Returns(into_web_sys_response(result))]
    ELSE [console |-> <<WorkerError_to_string(result.err)>>,
          out |-> error_handling(respond_with_errors, result.err)]

\* The host calls the exported fetch of a worker built with attrs.
EventFetch(attrs, result) ==
    /\ Len(glue.runs) < MaxRuns
    /\ LET mode == expand_macro_attrs(attrs).respond_with_errors
           w == wrapper_fn(mode, result)
       IN  glue' = [console |-> glue.console \o w.console,
                    runs |-> Append(glue.runs,
                               [respond_with_errors |-> mode, returned |-> result,
                                logged |-> Len(w.console), at |-> Len(glue.console),
                                out |-> w.out])]
    /\ UNCHANGED <<earlyVars, stubVars, sends, bare, envcalls, sock, race>>

NextGlue ==
    \E attrs \in {{"fetch"}, {"fetch", "respond_with_errors"}}, result \in EventReturns :
        EventFetch(attrs, result)

SpecGlue == Init /\ [][NextGlue]_vars

C25_WitnessSuccess ==
    /\ Len(glue.runs) = 2
    /\ glue.runs[1].returned = EventOk(404, "Not Found", {})
    /\ ~glue.runs[1].respond_with_errors
    /\ glue.runs[2].returned = EventOk(200, "Hello!", {TextHeader})
    /\ glue.runs[2].respond_with_errors
    /\ glue.runs[2].out.response.status = 200
    /\ glue.runs[2].out.response.headers = {TextHeader}
    /\ glue.console = <<>>

(***************************************************************************)
(* The accessors of Env: secret, var, durable_object and service, each     *)
(* through get_binding and the TryFrom<Object> of its type.                *)
(***************************************************************************)
MaxEnvCalls == 2    \* calls of the accessors

BindingNames == {"SOME_SECRET", "COUNTER", "MY_CLASS", "SERVICE", "DFSDF_FAKE_BINDING"}

\* The env object the host passes: for a name, the name of the constructor
\* of the value bound to it, or "undefined" for a name that is not bound.
EnvObject(name) ==
    CASE name = "SOME_SECRET" -> "String"
      [] name \in {"COUNTER", "MY_CLASS"} -> "DurableObjectNamespace"
      [] name = "SERVICE" -> "Fetcher"
      [] OTHER -> "undefined"

Accessors == {"secret", "var", "durable_object", "service"}

\* The type an accessor asks get_binding for.
BindingTypeOf(accessor) ==
    CASE accessor \in {"secret", "var"} -> "StringBinding"
      [] accessor = "durable_object" -> "ObjectNamespace"
      [] accessor = "service" -> "Fetcher"

Bound(t, name) == [ok |-> TRUE, binding |-> <<[type |-> t, name |-> name]>>, err |-> NoError]
Unbound(e) == [ok |-> FALSE, binding |-> <<>>, err |-> e]

BindingCast == WorkerError("BindingCast", "Binding cannot be cast")
InvalidBinding == WorkerError("InvalidBinding", "")
UndefinedBindingOf(name) ==
    WorkerError("UndefinedBinding", "Binding " \o name \o " is undefined.")

\* impl TryFrom<Object> for StringBinding
StringBinding_try_from(ctor, name) ==
    IF ctor = "String" THEN Bound("StringBinding", name) ELSE Unbound(BindingCast)

ObjectNamespace_try_from_cast(ctor, name) ==
    IF ctor = "DurableObjectNamespace" THEN Bound("ObjectNamespace", name)
    ELSE Unbound(BindingCast)

\* impl TryFrom<Object> for ObjectNamespace
ObjectNamespace_try_from(ctor, name) ==
    IF ctor = "DurableObjectNamespace" THEN Bound("ObjectNamespace", name)
    ELSE Unbound(InvalidBinding)

\* impl TryFrom<Object> for Fetcher
Fetcher_try_from(ctor, name) ==
    IF ctor = "Fetcher" THEN Bound("Fetcher", name) ELSE Unbound(InvalidBinding)

\* Env::get_binding::<T>(name).  Reflect::get of a property of the env
\* object does not throw.
Env_get_binding(t, name) ==
    LET binding == EnvObject(name)
    IN  IF binding = "undefined" THEN Unbound(UndefinedBindingOf(name))
        ELSE CASE t = "StringBinding" -> StringBinding_try_from(binding, name)
               [] t = "ObjectNamespace" -> ObjectNamespace_try_from(binding, name)
               [] t = "Fetcher" -> Fetcher_try_from(binding, name)

\* env.secret(name), env.var(name), env.durable_object(name), env.service(name)
EnvAccess(accessor, name) ==
    /\ Len(envcalls) < MaxEnvCalls
    /\ envcalls' = Append(envcalls, [accessor |-> accessor, name |-> name,
                                     res |-> Env_get_binding(BindingTypeOf(accessor), name)])
    /\ UNCHANGED <<earlyVars, stubVars, sends, bare, glue, sock, race>>

NextEnv == \E accessor \in Accessors, name \in BindingNames : EnvAccess(accessor, name)

SpecEnv == Init /\ [][NextEnv]_vars

\* The kind the accessor asks for, as the name of a constructor.
Wanted(accessor) ==
    CASE accessor \in {"secret", "var"} -> "String"
      [] accessor = "durable_object" -> "DurableObjectNamespace"
      [] accessor = "service" -> "Fetcher"

\* Whether every call made resolved its name: UndefinedBinding for a name not
\* bound, an error of kind cast(accessor) for a value of another kind, and
\* the typed binding of the name otherwise.
Resolves(cast(_)) ==
    \A i \in DOMAIN envcalls :
        LET c == envcalls[i]
        IN  CASE EnvObject(c.name) = "undefined" ->
                    ~c.res.ok /\ c.res.err.kind = "UndefinedBinding"
              [] EnvObject(c.name) # "undefined" /\ EnvObject(c.name) # Wanted(c.accessor) ->
                    ~c.res.ok /\ c.res.err.kind = cast(c.accessor)
              [] OTHER ->
                    /\ c.res.ok
                    /\ c.res.binding = <<[type |-> BindingTypeOf(c.accessor), name |-> c.name]>>

CastAsStated(accessor) == "BindingCast"

CastOfType(accessor) ==
    IF accessor \in {"secret", "var"} THEN "BindingCast" ELSE "InvalidBinding"

C26_WitnessTyped ==
    /\ Len(envcalls) = 2
    /\ envcalls[1].accessor = "secret" /\ envcalls[1].name = "MY_CLASS"
    /\ envcalls[1].res.err.kind = "BindingCast"
    /\ envcalls[2].accessor = "durable_object" /\ envcalls[2].name = "MY_CLASS"
    /\ envcalls[2].res.ok

(***************************************************************************)
(* MyClass, "/transaction" after "/storage".                               *)
(***************************************************************************)
\* C27: after a "/storage" fetch of MyClass has returned the number n, the
\* following fetch of the object, of "/transaction", returns the number
\* n + 1.
C27_TransactionReturnsNext ==
    \A f, g \in Fetches :
        (/\ fetches[f].st = "ended" /\ fetches[g].st = "ended"
         /\ fetches[f].object = "MyClass" /\ fetches[g].object = "MyClass"
         /\ fetches[f].path = "/storage" /\ fetches[f].kind = "count"
         /\ fetches[g].path = "/transaction"
         /\ f \in fetches[g].after
         /\ fetches[g].nth = fetches[f].nth + 1)
            => /\ fetches[g].kind = "count"
               /\ fetches[g].num = fetches[f].num + 1

\* Witness: "/storage" returned 1 and the "/transaction" that followed was
\* answered with no number; the count stored is still 1.
C27_Witness ==
    \E f, g \in Fetches :
        /\ fetches[f].st = "ended" /\ fetches[f].object = "MyClass"
        /\ fetches[f].path = "/storage" /\ fetches[f].kind = "count" /\ fetches[f].num = 1
        /\ fetches[g].st = "ended" /\ fetches[g].object = "MyClass"
        /\ fetches[g].path = "/transaction" /\ f \in fetches[g].after
        /\ fetches[g].kind = "unstable"
        /\ CountIn(disk["MyClass"]) = 1

(***************************************************************************)
(* Socket::poll_read.  The readable stream is the host's: get_reader locks *)
(* it, read() of the reader is settled by the host with a chunk, with done *)
(* or with an error, release_lock unlocks it.                              *)
(***************************************************************************)
ReadingPending(settled) == [tag |-> "Pending", data |-> <<>>, settled |-> settled]
ReadingReady(data) == [tag |-> "Ready", data |-> data, settled |-> <<>>]

MinOf(a, b) == IF a < b THEN a ELSE b

\* handle_data, forgetting the bytes the buffer has no room for.
handle_data_dropping(cap, data) ==
    [reading |-> ReadingNone, poll |-> "Ok",
     put |-> SubSeq(data, 1, MinOf(cap, Len(data)))]

\* handle_data(buf, data), cap being buf.remaining(): the Reading state, the
\* Poll returned and the bytes put into buf.
handle_data(cap, data) ==
    LET idx == MinOf(cap, Len(data))
        rest == SubSeq(data, idx + 1, Len(data))
    IN  [reading |-> IF rest = <<>> THEN ReadingNone ELSE ReadingReady(rest),
         poll |-> "Ok",
         put |-> SubSeq(data, 1, idx)]

\* handle_future: the future of reader.read() polled; release is whether
\* reader.release_lock() was called.
handle_future(cap, settled) ==
    IF settled = <<>>
    THEN [reading |-> ReadingPending(settled), poll |-> "Pending", put |-> <<>>,
          release |-> FALSE, data |-> <<>>]
    ELSE LET value == settled[1]
         IN  CASE value.t = "error" ->
                    [reading |-> ReadingNone, poll |-> "Err", put |-> <<>>,
                     release |-> FALSE, data |-> <<>>]
               [] value.t = "done" ->
                    [reading |-> ReadingNone, poll |-> "Ok", put |-> <<>>,
                     release |-> TRUE, data |-> <<>>]
               [] value.t = "chunk" ->
                    LET h == handle_data(cap, value.bytes)
                    IN  [reading |-> h.reading, poll |-> h.poll, put |-> h.put,
                         release |-> TRUE, data |-> value.bytes]

\* Socket::poll_read with a buffer that has room for cap bytes.  get_reader
\* of a locked stream throws.
PollRead(cap) ==
    /\ sock.ending # "none"
    /\ LET r == sock.read
       IN  IF r.tag = "None" /\ sock.locked
           THEN sock' = [sock EXCEPT !.last = [res |-> "Throw", cap |-> cap,
                                               data |-> <<>>, put |-> <<>>]]
           ELSE LET out == CASE r.tag = "None" -> handle_future(cap, <<>>)
                             [] r.tag = "Pending" -> handle_future(cap, r.settled)
                             [] r.tag = "Ready" ->
                                   LET h == handle_data(cap, r.data)
                                   IN  [reading |-> h.reading, poll |-> h.poll,
                                        put |-> h.put, release |-> FALSE,
                                        data |-> r.data]
                IN  sock' = [sock EXCEPT
                               !.read = out.reading,
                               !.locked = IF out.release THEN FALSE
                                          ELSE IF r.tag = "None" THEN TRUE ELSE @,
                               !.delivered = @ \o out.put,
                               !.last = [res |-> out.poll, cap |-> cap,
                                         data |-> out.data, put |-> out.put]]
    /\ UNCHANGED <<earlyVars, stubVars, sends, bare, glue, envcalls, race>>

\* The host settles the read that is pending: with the next chunk of the
\* stream, or with done or an error at its end.
HostSettleRead ==
    /\ sock.read.tag = "Pending"
    /\ sock.read.settled = <<>>
    /\ IF sock.chunks # <<>>
       THEN sock' = [sock EXCEPT
                       !.read = ReadingPending(<<[t |-> "chunk", bytes |-> Head(sock.chunks)]>>),
                       !.chunks = Tail(@),
                       !.taken = @ \o Head(sock.chunks)]
       ELSE sock' = [sock EXCEPT
                       !.read = ReadingPending(<<[t |-> sock.ending, bytes |-> <<>>]>>)]
    /\ UNCHANGED <<earlyVars, stubVars, sends, bare, glue, envcalls, race>>

\* connect: a socket whose peer will send chunks of the given sizes and
\* then close, or whose stream will fail after them.
Connect(sizes, ending) ==
    /\ sock.ending = "none"
    /\ sock' = Connected(ChunksOf(sizes, 1), ending)
    /\ UNCHANGED <<earlyVars, stubVars, sends, bare, glue, envcalls, race>>

NextSocket ==
    \/ \E n \in 0..MaxChunks : \E sizes \in [1..n -> 1..MaxChunkLen] :
          \E ending \in {"done", "error"} : Connect(sizes, ending)
    \/ \E cap \in 1..MaxBuf : PollRead(cap)
    \/ HostSettleRead

SpecSocket == Init /\ [][NextSocket]_vars

\* The bytes poll_read keeps for the next call.
Kept == IF sock.read.tag = "Ready" THEN sock.read.data ELSE <<>>

\* The chunk of a read the host has settled and poll_read has not yet seen.
Arrived ==
    IF sock.read.tag = "Pending" /\ sock.read.settled # <<>>
    THEN sock.read.settled[1].bytes ELSE <<>>

\* C28: handle_data puts the first min(buf.remaining(), len(data)) bytes of
\* data into buf and keeps the rest; the bytes delivered by the calls of
\* poll_read, followed by the bytes kept (or by the chunk that has arrived
\* and waits for the next call), are the chunks the stream has given, in
\* order; and no chunk is read while bytes are kept.
C28_ReadBufferingKeepsBytes ==
    /\ sock.delivered \o Kept \o Arrived = sock.taken
    /\ sock.read.tag = "Ready" => sock.read.data # <<>>
    /\ (sock.last.res = "Ok" /\ sock.last.data # <<>>)
          => LET n == MinOf(sock.last.cap, Len(sock.last.data))
             IN  /\ sock.last.put = SubSeq(sock.last.data, 1, n)
                 /\ Kept = SubSeq(sock.last.data, n + 1, Len(sock.last.data))
    /\ \A i \in DOMAIN sock.taken : sock.taken[i] = i

\* Witness: two chunks, of three and of two bytes, delivered whole through
\* buffers smaller than the chunks, and the end of the stream read.
C28_Witness ==
    /\ sock.delivered = <<1, 2, 3, 4, 5>>
    /\ sock.chunks = <<>>
    /\ sock.read.tag = "None"
    /\ sock.last.res = "Ok" /\ sock.last.put = <<>>

\* Witness: a chunk of three bytes met a buffer of one; two bytes are kept.
C28_WitnessKept ==
    /\ sock.read.tag = "Ready"
    /\ sock.read.data = <<2, 3>>
    /\ sock.delivered = <<1>>

\* C30: whenever a pending read has completed, with a chunk, with done or
\* with an error, and the read state is back at Reading::None, the reader's
\* lock has been released; so no later poll_read fails to get a reader.
C30_ReaderLockReleased ==
    /\ sock.read.tag = "None" => ~sock.locked
    /\ sock.last.res # "Throw"

\* Witness: the read failed, the lock was not released, and the next
\* poll_read found the stream locked.
C30_Witness ==
    /\ sock.read.tag = "None"
    /\ sock.locked
    /\ sock.last.res = "Throw"
    /\ sock.ending = "error"

(***************************************************************************)
(* Counter::fetch, one step per stretch between awaits.  Each call of      *)
(* _fetch makes a future of its own on the one instance; the host runs a   *)
(* ready future whenever no other is running, so the fetches take turns    *)
(* at the awaits of get and put.  The storage holds "count" or nothing.    *)
(***************************************************************************)
\* The host loads the object, its storage holding a count or none, and
\* constructs the Counter.
RaceLoad(stored) ==
    /\ ~race.loaded
    /\ race' = Raced(TRUE, stored)
    /\ UNCHANGED <<earlyVars, stubVars, sends, bare, glue, envcalls, sock>>

AtAwait(i) == race.inv[i].pc \in {"get", "put"}

\* self.count += 10; put("count", self.count), up to the await of the put.
\* The host writes the value when put is called.
Counter_add_and_put(r, i) ==
    [r EXCEPT !.count = @ + 10, !.stored = <<r.count + 10>>, !.inv[i].pc = "put"]

\* Counter::fetch from its start to its first await: of get, if the
\* instance is not initialized, else of put.
Counter_fetch_begin(r, i) ==
    IF ~r.initialized
    THEN [r EXCEPT !.initialized = TRUE, !.inv[i].pc = "get", !.inv[i].got = r.stored]
    ELSE Counter_add_and_put(r, i)

\* _fetch of the glue: the handler's future starts on the instance, whatever
\* other fetches are at an await.
RaceBegin(i) ==
    /\ race.loaded
    /\ race.inv[i].pc = "none"
    /\ \A j \in RaceFetches : j < i => race.inv[j].pc # "none"
    /\ race' = [Counter_fetch_begin(race, i) EXCEPT
                  !.overlap = @ \/ \E j \in RaceFetches : AtAwait(j)]
    /\ UNCHANGED <<earlyVars, stubVars, sends, bare, glue, envcalls, sock>>

\* The get resolves: self.count = get("count").await.unwrap_or(0), then the
\* add and the put.  The value is the one stored when get was called or the
\* one stored now.
RaceGot(i) ==
    /\ race.inv[i].pc = "get"
    /\ \E v \in {race.inv[i].got, race.stored} :
          race' = Counter_add_and_put([race EXCEPT !.count = IF v = <<>> THEN 0 ELSE v[1]], i)
    /\ UNCHANGED <<earlyVars, stubVars, sends, bare, glue, envcalls, sock>>

\* The put resolves: the response carries self.count.
RaceRespond(i) ==
    /\ race.inv[i].pc = "put"
    /\ race' = [race EXCEPT !.inv[i].pc = "done", !.inv[i].resp = race.count]
    /\ UNCHANGED <<earlyVars, stubVars, sends, bare, glue, envcalls, sock>>

NextRace ==
    \/ \E stored \in {<<>>, <<0>>, <<10>>} : RaceLoad(stored)
    \/ \E i \in RaceFetches : RaceBegin(i)
    \/ \E i \in RaceFetches : RaceGot(i)
    \/ \E i \in RaceFetches : RaceRespond(i)

SpecRace == Init /\ [][NextRace]_vars

RaceCompleted == {i \in RaceFetches : race.inv[i].pc = "done"}

\* C29: when n fetches have completed and none is in progress, the stored
\* count is the count persisted at the load (0 if there was none) plus
\* 10 * n, and the n responses carry n distinct counts.
C29_NoIncrementLost ==
    (race.loaded /\ RaceCompleted # {} /\ \A i \in RaceFetches : ~AtAwait(i))
        => /\ race.stored = <<(IF race.persisted = <<>> THEN 0 ELSE race.persisted[1])
                                + 10 * Cardinality(RaceCompleted)>>
           /\ \A i, j \in RaceCompleted : i # j => race.inv[i].resp # race.inv[j].resp

\* Witness: two fetches took turns at the awaits; both have completed, both
\* answered 10, and the storage, empty at the load, holds 10.
C29_Witness ==
    /\ race.overlap
    /\ race.persisted = <<>>
    /\ RaceCompleted = {1, 2}
    /\ \A i \in RaceFetches : ~AtAwait(i)
    /\ race.inv[1].resp = 10 /\ race.inv[2].resp = 10
    /\ race.stored = <<10>>

====
